---------------------------- MODULE Spec2Model ----------------------------
(***************************************************************************)
(* A model of rom-properties:                                              *)
(*   - RomDataFactory::create, the staged format-detection dispatcher      *)
(*     (src/src/libromdata/RomDataFactory.cpp);                            *)
(*   - the detection predicates and constructors of Nintendo3DS_SMDH,      *)
(*     Xbox360_XDBF and SID;                                               *)
(*   - the Xbox360_XDBF resource container handler, the GameCubeBNR and    *)
(*     SID handlers and the PowerVR3 metadata loader.                      *)
(*                                                                         *)
(* 16/32/64-bit quantities whose byte order matters are kept as tuples of  *)
(* bytes in memory order; a byteswap reverses the tuple.                   *)
(***************************************************************************)
EXTENDS Integers, Sequences, FiniteSets, TLC

VARIABLES
    (* the build *)
    hostLE,         \* SYS_BYTEORDER == SYS_LIL_ENDIAN
    (* RomDataFactory::create: the call's arguments and environment *)
    crFile,         \* the IRpFile passed to create(): size, extension, header words
    crAttrs,        \* the attrs argument (a set of RDA_* bits)
    (* RomDataFactory::create: locals *)
    pc,             \* position inside create()
    fnsIdx,         \* index of fns within the current table (1-based)
    info,           \* RomData::DetectInfo: header.addr, header.size, szFile, ext
    readFooter,     \* bool readFooter
    crReads,        \* number of file reads create() has issued
    romData,        \* the value create() returns (NoHandler is nullptr)
    liveHandlers,   \* RomData objects constructed and not yet unref()'d
    (* observations of the run of create() *)
    lastTried,      \* rank of the descriptor whose match rule was evaluated last
    firstValid,     \* the first handler that reported isValid(), or NoHandler
    anyDiscarded,   \* some handler was constructed, found not valid and unref()'d
    (* isRomSupported_static and the constructors, called on their own *)
    dtClass,        \* the RomData subclass under test
    dtFile,         \* the file: length and leading bytes
    dtStatic,       \* outcome of the last isRomSupported_static call, or NoCall
    dtCtor,         \* outcome of the last constructor call, or NoCall
    (* one RomData / FileFormat handler and the calls made on it *)
    klass,          \* the handler's class
    hFile,          \* the contents of the file the handler was opened on
    sysLang,        \* the system language the language helpers report
    d,              \* the handler's private object (RomDataPrivate subclass)
    lastCall,       \* the last call made on the handler and what it did
    first,          \* what the first call of each cached accessor produced
    (* one RomFields object and the calls made on it *)
    NDEBUG,         \* the build compiles assert() away
    rfd,            \* RomFieldsPrivate: fields, tabIdx, tabNames
    rfCall,         \* the last call made on the object and what it did
    (* the age ratings of one Nintendo3DS_SMDH header *)
    arRaw,          \* settings.ratings of the SMDH header: 16 raw bytes
    arField,        \* the age_ratings_t loadFieldData built, or NoCall
    arText,         \* what the decoders made of it, or NoCall
    (* the one-time initialized lists of RomDataFactory *)
    catalogShared,  \* the classes whose source is not at hand also list ".bin"
    once,           \* once_exts / once_mimeTypes: the pthread_once_t controls
    initLocals,     \* map_exts / set_mimeTypes and the position of a running initializer
    vec_exts,       \* RomDataFactoryPrivate::vec_exts
    vec_mimeTypes,  \* RomDataFactoryPrivate::vec_mimeTypes
    th,             \* the threads calling supportedFileExtensions / supportedMimeTypes
    seen,           \* the lists the calls have returned so far
    (* initStrTblIndexes on an entry table of any accepted length *)
    itTable,        \* the entry table: leading entries of other namespaces, then a tail
    itCall,         \* strTblIndexes and the return value of the call, or NoCall
    (* PowerVR3Private::loadImage on a header of any dimensions *)
    pvImage,        \* the header fields, the data start address and the file size
    pvCall          \* what loadImage computed and returned, or NoCall

createVars == <<crFile, crAttrs, pc, fnsIdx, info, readFooter, crReads,
                romData, liveHandlers, lastTried, firstValid, anyDiscarded>>

detectVars == <<dtClass, dtFile, dtStatic, dtCtor>>

handlerVars == <<klass, hFile, sysLang, d, lastCall, first>>

fieldsVars == <<NDEBUG, rfd, rfCall>>

ratingVars == <<arRaw, arField, arText>>

onceVars == <<catalogShared, once, initLocals, vec_exts, vec_mimeTypes, th, seen>>

indexVars == <<itTable, itCall>>

imageVars == <<pvImage, pvCall>>

\* The variables of the library parts below the handlers.
laterVars == <<fieldsVars, ratingVars, onceVars, indexVars, imageVars>>

vars == <<hostLE, createVars, detectVars, handlerVars, laterVars>>

NoCall == [op |-> "none"]

\* The variables of the parts of the program a behaviour does not run.
CreateIdle ==
    /\ crFile = [size |-> 0, ext |-> "nullptr"]
    /\ crAttrs = {}
    /\ pc = "idle"
    /\ fnsIdx = 1
    /\ info = [header |-> [addr |-> 0, size |-> 0], szFile |-> 0, ext |-> "nullptr"]
    /\ readFooter = FALSE
    /\ crReads = 0
    /\ romData = [rank |-> -1, sys |-> "nullptr", valid |-> FALSE]
    /\ liveHandlers = {}
    /\ lastTried = -1
    /\ firstValid = [rank |-> -1, sys |-> "nullptr", valid |-> FALSE]
    /\ anyDiscarded = FALSE

DetectIdle ==
    /\ dtClass = "none"
    /\ dtFile = [len |-> 0]
    /\ dtStatic = NoCall
    /\ dtCtor = NoCall

HandlerIdle ==
    /\ klass = "none"
    /\ hFile = [len |-> 0]
    /\ sysLang = 0
    /\ d = [file |-> "nullptr", isValid |-> FALSE]
    /\ lastCall = NoCall
    /\ first = NoCall

FieldsIdle ==
    /\ NDEBUG = TRUE
    /\ rfd = [fields |-> <<>>, tabIdx |-> 0, tabNames |-> <<>>]
    /\ rfCall = NoCall

RatingIdle ==
    /\ arRaw = <<>>
    /\ arField = NoCall
    /\ arText = NoCall

OnceIdle ==
    /\ catalogShared = FALSE
    /\ once = [w \in {"exts", "mimeTypes"} |-> [state |-> "INIT", runs |-> 0]]
    /\ initLocals = [w \in {"exts", "mimeTypes"} |-> [stage |-> "none", seen |-> <<>>]]
    /\ vec_exts = <<>>
    /\ vec_mimeTypes = <<>>
    /\ th = <<>>
    /\ seen = [w \in {"exts", "mimeTypes"} |-> {}]

IndexIdle ==
    /\ itTable = [pad |-> 0, tail |-> <<>>]
    /\ itCall = NoCall

ImageIdle ==
    /\ pvImage = [width |-> 0]
    /\ pvCall = NoCall

-----------------------------------------------------------------------------
(* Byte order helpers (librpbase/byteswap.h).                              *)

RECURSIVE ReverseSeq(_)
ReverseSeq(s) == IF s = <<>> THEN <<>> ELSE Append(ReverseSeq(Tail(s)), Head(s))

\* __swab16 / __swab32 / __swab64 on a value held as its bytes
bswap(m) == ReverseSeq(m)

\* cpu_to_be16/32/64 and be16/32/64_to_cpu: a swap on little-endian hosts only
cpu_to_be(m) == IF hostLE THEN bswap(m) ELSE m
be_to_cpu(m) == IF hostLE THEN bswap(m) ELSE m

\* The in-memory bytes of an integer constant v of n bytes on this host.
RECURSIVE BEBytes(_, _)
BEBytes(v, n) == IF n = 0 THEN <<>> ELSE Append(BEBytes(v \div 256, n - 1), v % 256)
HostBytes(v, n) == IF hostLE THEN bswap(BEBytes(v, n)) ELSE BEBytes(v, n)

\* The integer a host reads from n bytes of memory (small values only).
RECURSIVE BEValue(_)
BEValue(m) == IF m = <<>> THEN 0
              ELSE BEValue(SubSeq(m, 1, Len(m) - 1)) * 256 + m[Len(m)]
HostValue(m) == IF hostLE THEN BEValue(bswap(m)) ELSE BEValue(m)


-----------------------------------------------------------------------------
(* RomDataFactory: the catalog (RomDataFactory.cpp:215-304).               *)
(* attrs is the set of RDA_* bits of the descriptor.  In romDataFns_magic  *)
(* the size member holds the 32-bit magic number, written here as its four *)
(* bytes, most significant first.                                          *)

ATTR_NONE == {}
ATTR_HAS_THUMBNAIL == {"RDA_HAS_THUMBNAIL"}
ATTR_HAS_DPOVERLAY == {"RDA_HAS_DPOVERLAY"}

GetRomDataFns(sys, attrs) == [sys |-> sys, attrs |-> attrs, address |-> 0, size |-> 0]
GetRomDataFns_addr(sys, attrs, address, size) ==
    [sys |-> sys, attrs |-> attrs, address |-> address, size |-> size]

romDataFns_magic == <<
    GetRomDataFns_addr("WiiWIBN", ATTR_HAS_THUMBNAIL, 0, <<87, 73, 66, 78>>),
    GetRomDataFns_addr("DMG", ATTR_NONE, 260, <<206, 237, 102, 102>>),
    GetRomDataFns_addr("GameBoyAdvance", ATTR_NONE, 4, <<36, 255, 174, 81>>),
    GetRomDataFns_addr("Lynx", ATTR_NONE, 0, <<76, 89, 78, 88>>),
    GetRomDataFns_addr("Nintendo3DSFirm", ATTR_NONE, 0, <<70, 73, 82, 77>>),
    GetRomDataFns_addr("Nintendo3DS_SMDH", ATTR_HAS_THUMBNAIL, 0, <<83, 77, 68, 72>>),
    GetRomDataFns_addr("DirectDrawSurface", ATTR_HAS_THUMBNAIL, 0, <<68, 68, 83, 32>>),
    GetRomDataFns_addr("KhronosKTX", ATTR_HAS_THUMBNAIL, 0, <<171, 75, 84, 88>>),
    GetRomDataFns_addr("ValveVTF", ATTR_HAS_THUMBNAIL, 0, <<86, 84, 70, 0>>),
    GetRomDataFns_addr("ValveVTF3", ATTR_HAS_THUMBNAIL, 0, <<86, 84, 70, 51>>),
    GetRomDataFns_addr("GBS", ATTR_NONE, 0, <<71, 66, 83, 1>>),
    GetRomDataFns_addr("NSF", ATTR_NONE, 0, <<78, 69, 83, 77>>),
    GetRomDataFns_addr("SPC", ATTR_NONE, 0, <<83, 78, 69, 83>>),
    GetRomDataFns_addr("VGM", ATTR_NONE, 0, <<86, 103, 109, 32>>),
    GetRomDataFns_addr("ELF", ATTR_NONE, 0, <<127, 69, 76, 70>>) >>

romDataFns_header == <<
    GetRomDataFns("Dreamcast", ATTR_HAS_THUMBNAIL),
    GetRomDataFns("DreamcastSave", ATTR_HAS_THUMBNAIL),
    GetRomDataFns("GameCube", ATTR_HAS_THUMBNAIL),
    GetRomDataFns("GameCubeBNR", ATTR_HAS_THUMBNAIL),
    GetRomDataFns("GameCubeSave", ATTR_HAS_THUMBNAIL),
    GetRomDataFns("MegaDrive", ATTR_NONE),
    GetRomDataFns("N64", ATTR_NONE),
    GetRomDataFns("NES", ATTR_NONE),
    GetRomDataFns("SNES", ATTR_NONE),
    GetRomDataFns("SegaSaturn", ATTR_NONE),
    GetRomDataFns("WiiSave", ATTR_HAS_THUMBNAIL),
    GetRomDataFns("WiiU", ATTR_HAS_THUMBNAIL),
    GetRomDataFns("WiiWAD", ATTR_HAS_THUMBNAIL),
    GetRomDataFns("Nintendo3DS", ATTR_HAS_THUMBNAIL \cup ATTR_HAS_DPOVERLAY),
    GetRomDataFns("NintendoDS", ATTR_HAS_THUMBNAIL \cup ATTR_HAS_DPOVERLAY),
    GetRomDataFns("SegaPVR", ATTR_HAS_THUMBNAIL),
    GetRomDataFns("ADX", ATTR_NONE),
    GetRomDataFns("PSF", ATTR_NONE),
    GetRomDataFns("SAP", ATTR_NONE),
    GetRomDataFns("SNDH", ATTR_NONE),
    GetRomDataFns("SID", ATTR_NONE),
    GetRomDataFns("Amiibo", ATTR_HAS_THUMBNAIL),
    GetRomDataFns("NintendoBadge", ATTR_HAS_THUMBNAIL),
    GetRomDataFns("EXE", ATTR_NONE),
    GetRomDataFns("PlayStationSave", ATTR_HAS_THUMBNAIL),
    GetRomDataFns("GameCom", ATTR_HAS_THUMBNAIL),
    GetRomDataFns_addr("Sega8Bit", ATTR_NONE, 32736, 32),
    GetRomDataFns_addr("GameCom", ATTR_HAS_THUMBNAIL, 262144, 32) >>

romDataFns_footer == <<
    GetRomDataFns("VirtualBoy", ATTR_NONE) >>

\* The catalog attributes of a RomData subclass (a class may be listed in
\* more than one row; its rows carry the same attrs).
RECURSIVE AttrsIn(_, _)
AttrsIn(tbl, sys) ==
    IF tbl = <<>> THEN {}
    ELSE (IF Head(tbl).sys = sys THEN Head(tbl).attrs ELSE {}) \cup AttrsIn(Tail(tbl), sys)
CatalogAttrs(sys) ==
    AttrsIn(romDataFns_magic, sys) \cup AttrsIn(romDataFns_header, sys)
        \cup AttrsIn(romDataFns_footer, sys)

\* Position of a descriptor in the order magic table, header table, footer table.
\* The .VMI+.VMS pair attempt, which precedes the tables, has rank 0.
RankMagic(i)  == i
RankHeader(i) == Len(romDataFns_magic) + i
RankFooter(i) == Len(romDataFns_magic) + Len(romDataFns_header) + i

-----------------------------------------------------------------------------
(* RomDataFactory::create (RomDataFactory.cpp:389-590).                    *)

NoHandler == [rank |-> -1, sys |-> "nullptr", valid |-> FALSE]
NoExt == "nullptr"

HEADER_BUF_SIZE == 4352         \* sizeof(header.u8): 4096+256
FOOTER_SIZE == 1024             \* static const int footer_size
FOOTER_MAX_FILESIZE == 1073741824   \* 1LL << 30
DC_VMS_BLOCK_SIZE == 512
DC_VMS_ICONDATA_MONO_MINSIZE == 160
DC_VMI_Header_SIZE == 108

Min(a, b) == IF a < b THEN a ELSE b

\* strcasecmp(a, b) == 0, over the extensions the model uses
ToLower(s) == CASE s = ".VMS" -> ".vms" [] s = ".BIN" -> ".bin" [] OTHER -> s
strcasecmp_eq(a, b) == ToLower(a) = ToLower(b)

\* IRpFile::read / seekAndRead of `want` bytes with `avail` bytes left in the
\* file: the bytes that are there, or 0 on a seek or read error.
ReadResults(avail, want) == {Min(avail, want), 0}

\* The four bytes header.u32[address/4] holds.  Bytes of the buffer that the
\* last read did not fill are uninitialized: any value.
Zero4 == <<0, 0, 0, 0>>
MagicAddrs == {romDataFns_magic[i].address : i \in 1..Len(romDataFns_magic)}
WordsAt(a) == {romDataFns_magic[i].size :
                  i \in {j \in 1..Len(romDataFns_magic) : romDataFns_magic[j].address = a}}
               \cup {Zero4}
HeaderWord(address) ==
    IF address + 4 <= info.header.size
    THEN {crFile.words[address]}
    ELSE WordsAt(address)

\* The in-memory bytes of a 32-bit constant given by its big-endian digits.
HostConst(w) == IF hostLE THEN bswap(w) ELSE w

\* isRomSupported() >= 0 and isValid() of the RomData subclasses: decided by
\* the subclass from the file's contents.
IsRomSupportedResults(fns) == BOOLEAN
IsValidResults(fns) == BOOLEAN

\* romData->unref() on an object create() holds the only reference to.
Unref_leak(live, h) == live
Unref(live, h) == live \ {h}

\* (fns->attrs & attrs) != attrs
LacksAttrs_none(fns, attrs) == FALSE
LacksAttrs(fns, attrs) == ~(attrs \subseteq fns.attrs)

\* fns->newRomData(file); if (romData->isValid()) return romData; romData->unref();
\* `rank` identifies the descriptor; `next` is the position after a failure.
TryConstruct(fns, rank, valid, nextPc, nextIdx) ==
    LET h == [rank |-> rank, sys |-> fns.sys, valid |-> valid] IN
    /\ firstValid' = IF valid /\ firstValid = NoHandler THEN h ELSE firstValid
    /\ anyDiscarded' = (anyDiscarded \/ ~valid)
    /\ IF valid
       THEN /\ romData' = h
            /\ liveHandlers' = liveHandlers \cup {h}
            /\ pc' = "done"
            /\ fnsIdx' = fnsIdx
       ELSE /\ romData' = romData
            /\ liveHandlers' = Unref(liveHandlers \cup {h}, h)
            /\ pc' = nextPc
            /\ fnsIdx' = nextIdx

\* Lines 389-436 up to the dispatch on the extension.
CreateReadHeader ==
    /\ pc = "start"
    /\ \E n \in ReadResults(crFile.size, HEADER_BUF_SIZE) :
         /\ crReads' = crReads + 1
         /\ IF n = 0
            THEN /\ info' = [info EXCEPT !.szFile = crFile.size, !.header.size = 0]
                 /\ pc' = "done"
            ELSE /\ info' = [header |-> [addr |-> 0, size |-> n],
                             szFile |-> crFile.size, ext |-> crFile.ext]
                 /\ pc' = IF crFile.ext # NoExt /\
                             (strcasecmp_eq(crFile.ext, ".vms") \/
                              strcasecmp_eq(crFile.ext, ".vmi"))
                          THEN "pair" ELSE "magic"
    /\ fnsIdx' = 1
    /\ UNCHANGED <<hostLE, laterVars, detectVars, handlerVars, crFile, crAttrs, readFooter, romData, liveHandlers,
                   lastTried, firstValid, anyDiscarded>>

\* The other file of a .VMI+.VMS pair, opened by openRelatedFile.  An open
\* file create() is responsible for is kept with the handlers it holds.
other_file == [rank |-> -2, sys |-> "IRpFile", valid |-> FALSE]

\* delete *other_file;
DeleteFile_kept(live, f) == live
DeleteFile(live, f) == live \ {f}

\* openDreamcastVMSandVMI (lines 311-370) and its call site (lines 418-436).
OpenDreamcastVMSandVMI ==
    /\ pc = "pair"
    /\ LET filesize == crFile.size
           has_dc_vms == (filesize % DC_VMS_BLOCK_SIZE = 0) \/
                         (filesize = DC_VMS_ICONDATA_MONO_MINSIZE)
           has_dc_vmi == (filesize = DC_VMI_Header_SIZE)
           fns == [sys |-> "DreamcastSave"]
       IN IF ~(has_dc_vms # has_dc_vmi)
          THEN /\ pc' = "magic"
               /\ UNCHANGED <<fnsIdx, romData, liveHandlers, lastTried, firstValid, anyDiscarded>>
          ELSE \E opened \in BOOLEAN :
                 IF ~opened
                 THEN /\ pc' = "magic"
                      /\ UNCHANGED <<fnsIdx, romData, liveHandlers, lastTried, firstValid, anyDiscarded>>
                 ELSE \E valid \in IsValidResults(fns) :
                      \E h \in {[rank |-> 0, sys |-> fns.sys, valid |-> valid]} :
                      \E live \in {DeleteFile(liveHandlers \cup {other_file, h},
                                              other_file)} :
                        /\ lastTried' = 0
                        /\ firstValid' = IF valid /\ firstValid = NoHandler
                                         THEN h ELSE firstValid
                        /\ anyDiscarded' = (anyDiscarded \/ ~valid)
                        /\ fnsIdx' = fnsIdx
                        /\ IF valid
                           THEN /\ romData' = h
                                /\ liveHandlers' = live
                                /\ pc' = "done"
                           ELSE /\ romData' = romData
                                /\ liveHandlers' = Unref(live, h)
                                /\ pc' = "magic"
    /\ UNCHANGED <<hostLE, laterVars, detectVars, handlerVars, crFile, crAttrs, info, readFooter, crReads>>

\* One iteration of the loop over romDataFns_magic (lines 438-468).
MagicStep ==
    /\ pc = "magic"
    /\ IF fnsIdx > Len(romDataFns_magic)
       THEN /\ pc' = "header"
            /\ fnsIdx' = 1
            /\ UNCHANGED <<romData, liveHandlers, lastTried, firstValid, anyDiscarded>>
       ELSE LET fns == romDataFns_magic[fnsIdx] IN
            IF LacksAttrs(fns, crAttrs)
            THEN /\ fnsIdx' = fnsIdx + 1
                 /\ UNCHANGED <<pc, romData, liveHandlers, lastTried, firstValid, anyDiscarded>>
            ELSE /\ lastTried' = RankMagic(fnsIdx)
                 /\ \E magic \in HeaderWord(fns.address) :
                      IF be_to_cpu(magic) = HostConst(fns.size)
                      THEN \E sup \in IsRomSupportedResults(fns) :
                             IF sup
                             THEN \E valid \in IsValidResults(fns) :
                                    TryConstruct(fns, RankMagic(fnsIdx), valid,
                                                 "magic", fnsIdx + 1)
                             ELSE /\ fnsIdx' = fnsIdx + 1
                                  /\ UNCHANGED <<pc, romData, liveHandlers, firstValid, anyDiscarded>>
                      ELSE /\ fnsIdx' = fnsIdx + 1
                           /\ UNCHANGED <<pc, romData, liveHandlers, firstValid, anyDiscarded>>
    /\ UNCHANGED <<hostLE, laterVars, detectVars, handlerVars, crFile, crAttrs, info, readFooter, crReads>>

\* Leaving the header loop, by its end or by a break: the size check that
\* precedes the footer loop (lines 538-546).
EnterFooterStage_anySize ==
    /\ pc' = "footer"
    /\ fnsIdx' = 1
    /\ readFooter' = FALSE
EnterFooterStage ==
    IF info.szFile > FOOTER_MAX_FILESIZE
    THEN /\ pc' = "done"
         /\ UNCHANGED <<fnsIdx, readFooter>>
    ELSE /\ pc' = "footer"
         /\ fnsIdx' = 1
         /\ readFooter' = FALSE

\* The extensions for which the header stage re-reads the header (lines 489-499).
HeaderRereadAllowed_anyExt(ext) == TRUE
HeaderRereadAllowed(ext) ==
    /\ ext # NoExt
    /\ \/ strcasecmp_eq(ext, ".bin")
       \/ strcasecmp_eq(ext, ".sms")
       \/ strcasecmp_eq(ext, ".gg")
       \/ strcasecmp_eq(ext, ".tgc")

\* isRomSupported() and construction in the header and footer loops.
DetectAndConstruct(fns, rank, stage) ==
    /\ lastTried' = rank
    /\ \E sup \in IsRomSupportedResults(fns) :
         IF sup
         THEN \E valid \in IsValidResults(fns) :
                TryConstruct(fns, rank, valid, stage, fnsIdx + 1)
         ELSE /\ fnsIdx' = fnsIdx + 1
              /\ UNCHANGED <<pc, romData, liveHandlers, firstValid, anyDiscarded>>

\* One iteration of the loop over romDataFns_header (lines 470-536).
HeaderStep ==
    /\ pc = "header"
    /\ IF fnsIdx > Len(romDataFns_header)
       THEN /\ EnterFooterStage
            /\ UNCHANGED <<info, crReads, romData, liveHandlers, lastTried, firstValid, anyDiscarded>>
       ELSE LET fns == romDataFns_header[fnsIdx] IN
            IF LacksAttrs(fns, crAttrs)
            THEN /\ fnsIdx' = fnsIdx + 1
                 /\ UNCHANGED <<pc, info, readFooter, crReads, romData, liveHandlers,
                                lastTried, firstValid, anyDiscarded>>
            ELSE IF fns.address # info.header.addr \/ fns.size > info.header.size
            THEN \* Header address has changed.
                 IF ~HeaderRereadAllowed(info.ext)
                 THEN \* break
                      /\ EnterFooterStage
                      /\ UNCHANGED <<info, crReads, romData, liveHandlers,
                                     lastTried, firstValid, anyDiscarded>>
                 ELSE IF fns.size = 0 \/ fns.size > HEADER_BUF_SIZE
                         \/ fns.address + fns.size > info.szFile
                 THEN \* continue
                      /\ fnsIdx' = fnsIdx + 1
                      /\ UNCHANGED <<pc, info, readFooter, crReads, romData,
                                     liveHandlers, lastTried, firstValid, anyDiscarded>>
                 ELSE \E seekOk \in BOOLEAN :
                        IF ~seekOk
                        THEN /\ info' = [info EXCEPT !.header.addr = fns.address]
                             /\ fnsIdx' = fnsIdx + 1
                             /\ UNCHANGED <<pc, readFooter, crReads, romData,
                                            liveHandlers, lastTried, firstValid, anyDiscarded>>
                        ELSE \E n \in ReadResults(info.szFile - fns.address, fns.size) :
                               /\ info' = [info EXCEPT !.header.addr = fns.address,
                                                       !.header.size = n]
                               /\ crReads' = crReads + 1
                               /\ readFooter' = readFooter
                               /\ IF n # fns.size
                                  THEN /\ fnsIdx' = fnsIdx + 1
                                       /\ UNCHANGED <<pc, romData, liveHandlers,
                                                      lastTried, firstValid, anyDiscarded>>
                                  ELSE DetectAndConstruct(fns, RankHeader(fnsIdx), "header")
            ELSE /\ DetectAndConstruct(fns, RankHeader(fnsIdx), "header")
                 /\ UNCHANGED <<info, readFooter, crReads>>
    /\ UNCHANGED <<hostLE, laterVars, detectVars, handlerVars, crFile, crAttrs>>

\* One iteration of the loop over romDataFns_footer (lines 547-590).
FooterStep ==
    /\ pc = "footer"
    /\ IF fnsIdx > Len(romDataFns_footer)
       THEN \* Not supported.
            /\ pc' = "done"
            /\ UNCHANGED <<fnsIdx, info, readFooter, crReads, romData, liveHandlers,
                           lastTried, firstValid, anyDiscarded>>
       ELSE LET fns == romDataFns_footer[fnsIdx] IN
            IF LacksAttrs(fns, crAttrs)
               \/ info.ext = NoExt \/ ~strcasecmp_eq(info.ext, ".vb")
            THEN /\ fnsIdx' = fnsIdx + 1
                 /\ UNCHANGED <<pc, info, readFooter, crReads, romData, liveHandlers,
                                lastTried, firstValid, anyDiscarded>>
            ELSE IF ~readFooter /\ info.szFile > FOOTER_SIZE
            THEN \E n \in ReadResults(FOOTER_SIZE, FOOTER_SIZE) :
                   /\ info' = [info EXCEPT !.header.addr = info.szFile - FOOTER_SIZE,
                                           !.header.size = n]
                   /\ crReads' = crReads + 1
                   /\ IF n = 0
                      THEN \* Seek and/or read error.
                           /\ pc' = "done"
                           /\ UNCHANGED <<fnsIdx, readFooter, romData, liveHandlers,
                                          lastTried, firstValid, anyDiscarded>>
                      ELSE /\ readFooter' = TRUE
                           /\ DetectAndConstruct(fns, RankFooter(fnsIdx), "footer")
            ELSE /\ readFooter' = TRUE
                 /\ DetectAndConstruct(fns, RankFooter(fnsIdx), "footer")
                 /\ UNCHANGED <<info, crReads>>
    /\ UNCHANGED <<hostLE, laterVars, detectVars, handlerVars, crFile, crAttrs>>

\* The files and attrs create() is called with.
FileExts == {NoExt, ".vms", ".VMS", ".vmi", ".bin", ".vb", ".txt"}
FileSizes == {0, 2, 108, 512, 1000, 32768, 262176, 1073741824, 1073742336}
RequestedAttrs == SUBSET (ATTR_HAS_THUMBNAIL \cup ATTR_HAS_DPOVERLAY)
CreateFiles ==
    {f \in [size : FileSizes, ext : FileExts,
            words : [MagicAddrs -> UNION {WordsAt(a) : a \in MagicAddrs}]] :
        \A a \in MagicAddrs :
            /\ f.words[a] \in WordsAt(a)
            /\ a + 4 > f.size => f.words[a] = Zero4}

InitCreate ==
    /\ hostLE \in BOOLEAN
    /\ crFile \in CreateFiles
    /\ crAttrs \in RequestedAttrs
    /\ pc = "start"
    /\ fnsIdx = 1
    /\ info = [header |-> [addr |-> 0, size |-> 0], szFile |-> 0, ext |-> NoExt]
    /\ readFooter = FALSE
    /\ crReads = 0
    /\ romData = NoHandler
    /\ liveHandlers = {}
    /\ lastTried = -1
    /\ firstValid = NoHandler
    /\ anyDiscarded = FALSE
    /\ DetectIdle
    /\ HandlerIdle
    /\ FieldsIdle
    /\ RatingIdle
    /\ OnceIdle
    /\ IndexIdle
    /\ ImageIdle

NextCreate ==
    \/ CreateReadHeader
    \/ OpenDreamcastVMSandVMI
    \/ MagicStep
    \/ HeaderStep
    \/ FooterStep

SpecCreate == InitCreate /\ [][NextCreate]_vars

-----------------------------------------------------------------------------
(* Properties of RomDataFactory::create.                                   *)

CreateDone == pc = "done"

\* Between two iterations no handler that reported !isValid() is still
\* referenced; the first Valid handler ends the call and is the result; a
\* non-null result is Valid and belongs to the descriptor tried last; without
\* a Valid handler the result is nullptr.
CreateResultInv ==
    /\ \A h \in liveHandlers : h.valid
    /\ firstValid # NoHandler =>
          /\ CreateDone
          /\ romData = firstValid
          /\ liveHandlers = {firstValid}
    /\ firstValid = NoHandler => (romData = NoHandler /\ liveHandlers = {})
    /\ romData # NoHandler => (romData.valid /\ romData.rank = lastTried)

\* Descriptors are tried in increasing rank: magic table, header table,
\* footer table, each in table order.
CreateOrderStep ==
    /\ lastTried' # lastTried => lastTried' > lastTried
    /\ (pc = "header" /\ lastTried' # lastTried) => lastTried' > Len(romDataFns_magic)
    /\ (pc = "footer" /\ lastTried' # lastTried) =>
           lastTried' > Len(romDataFns_magic) + Len(romDataFns_header)

\* C1: create tries the descriptors in the fixed order magic, header, footer
\* (table order inside each), returns the handler of the first tried
\* descriptor that is accepted and Valid, releases every handler that is not
\* Valid before going on, returns only Valid handlers, and returns nullptr
\* when no handler was Valid.
C1_FirstValidWins == [](CreateResultInv) /\ [][CreateOrderStep]_vars

\* A run that discarded an invalid handler and then returned a Valid one
\* found in the header table.
C1_Witness ==
    /\ CreateDone
    /\ anyDiscarded
    /\ romData # NoHandler
    /\ romData.rank > Len(romDataFns_magic)

\* C2: create(file, RDA_HAS_THUMBNAIL) never returns a handler of a class
\* whose catalog row lacks the thumbnail attribute.
C2_ThumbnailOnly ==
    (CreateDone /\ crAttrs = ATTR_HAS_THUMBNAIL /\ romData # NoHandler)
        => ATTR_HAS_THUMBNAIL \subseteq CatalogAttrs(romData.sys)

\* A file carrying the Lynx magic (a class without thumbnails) for which
\* create(file, RDA_HAS_THUMBNAIL) still returned a handler.
C2_Witness ==
    /\ CreateDone
    /\ crAttrs = ATTR_HAS_THUMBNAIL
    /\ crFile.words[0] = <<76, 89, 78, 88>>
    /\ romData # NoHandler

\* C3: on every detection path, the .VMI+.VMS pair path included, a returned
\* handler's class has every requested attribute: (d & A) == A.
C3_AttrsRespected ==
    (CreateDone /\ romData # NoHandler) => crAttrs \subseteq CatalogAttrs(romData.sys)

-----------------------------------------------------------------------------
(* isRomSupported_static and the constructors of Nintendo3DS_SMDH,         *)
(* Xbox360_XDBF and SID.                                                   *)
(*                                                                         *)
(* A detection window is [addr, size, pData]: pData holds what the buffer  *)
(* contains at bytes 0..3 (magic) and 4..7 (version), whether or not those *)
(* bytes were read.  Each predicate returns [ret, examined]: its return    *)
(* value and the number of leading buffer bytes it looked at.              *)

N3DS_SMDH_MIN_HEADER == 512     \* info->header.size < 512
sizeof_smdh == 14016            \* sizeof(d->smdh): header 0x2040 + icon 0x1680
sizeof_XDBF_Header == 24
sizeof_XDBF_Entry == 18
sizeof_XDBF_Free_Space_Entry == 8
sizeof_SID_Header == 124

N3DS_SMDH_HEADER_MAGIC == 1397572680    \* 'SMDH'
XDBF_MAGIC == 1480868422                \* 'XDBF'
XDBF_VERSION == 65536                   \* 0x10000
PSID_MAGIC == 1347635524                \* 'PSID'
RSID_MAGIC == 1381189956                \* 'RSID'
XDBF_MAX_ENTRIES == 1048576

\* cpu_to_be32(v) as it lies in memory.
BE32Const(v) == cpu_to_be(HostBytes(v, 4))

\* info->header.size < <minimum>
HeaderTooSmall_never(size, minimum) == FALSE
HeaderTooSmall(size, minimum) == size < minimum

Unsupported == [ret |-> -1, examined |-> 0]

Nintendo3DS_SMDH_isRomSupported_static(inf) ==
    IF inf.addr # 0 \/ HeaderTooSmall(inf.size, N3DS_SMDH_MIN_HEADER)
    THEN Unsupported
    ELSE IF inf.pData.magic = BE32Const(N3DS_SMDH_HEADER_MAGIC)
         THEN [ret |-> 0, examined |-> 4]
         ELSE [ret |-> -1, examined |-> 4]

Xbox360_XDBF_isRomSupported_static(inf) ==
    IF inf.addr # 0 \/ HeaderTooSmall(inf.size, sizeof_XDBF_Entry)
    THEN Unsupported
    ELSE IF inf.pData.magic # BE32Const(XDBF_MAGIC)
         THEN [ret |-> -1, examined |-> 4]
         ELSE IF inf.pData.version = BE32Const(XDBF_VERSION)
              THEN [ret |-> 0, examined |-> 8]
              ELSE [ret |-> -1, examined |-> 8]

SID_isRomSupported_static(inf) ==
    IF inf.addr # 0 \/ HeaderTooSmall(inf.size, sizeof_SID_Header)
    THEN Unsupported
    ELSE IF inf.pData.magic = BE32Const(PSID_MAGIC) \/
            inf.pData.magic = BE32Const(RSID_MAGIC)
         THEN [ret |-> 0, examined |-> 4]
         ELSE [ret |-> -1, examined |-> 4]

\* The constructors.  `dup` tells whether the file handle could be taken,
\* `n` is what the header read returned.  The result is the handler's
\* isValid and file, the bytes read and the header bytes examined.
CtorFail(n, examined) ==
    [isValid |-> FALSE, file |-> "nullptr", read |-> n, examined |-> examined]

Nintendo3DS_SMDH_ctor(f, dup, n) ==
    IF ~dup THEN CtorFail(0, 0)
    ELSE IF n # sizeof_smdh THEN CtorFail(n, 0)
    ELSE LET r == Nintendo3DS_SMDH_isRomSupported_static(
                      [addr |-> 0, size |-> sizeof_smdh, pData |-> f])
         IN IF r.ret >= 0
            THEN [isValid |-> TRUE, file |-> "open", read |-> n, examined |-> r.examined]
            ELSE CtorFail(n, r.examined)

SID_ctor(f, dup, n) ==
    IF ~dup THEN CtorFail(0, 0)
    ELSE IF n # sizeof_SID_Header THEN CtorFail(n, 0)
    ELSE LET r == SID_isRomSupported_static(
                      [addr |-> 0, size |-> sizeof_SID_Header, pData |-> f])
         IN IF r.ret >= 0
            THEN [isValid |-> TRUE, file |-> "open", read |-> n, examined |-> r.examined]
            ELSE CtorFail(n, r.examined)

\* Xbox360_XDBF::init.  `m` is what the entry-table read returned.  The
\* result also carries entryTable and data_offset; f.entries holds the
\* entries of the file that are not all zero bytes, and entryTable those of
\* them that were read.
XdbfCtorFail_keepsFile(n, examined) ==
    [isValid |-> FALSE, file |-> "open", read |-> n, examined |-> examined,
     entryTable |-> <<>>, data_offset |-> 0]
XdbfCtorFail(n, examined) ==
    [isValid |-> FALSE, file |-> "nullptr", read |-> n, examined |-> examined,
     entryTable |-> <<>>, data_offset |-> 0]

Xbox360_XDBF_init(f, dup, n, m) ==
    IF ~dup THEN XdbfCtorFail(0, 0)
    ELSE IF n # sizeof_XDBF_Header THEN XdbfCtorFail(n, 0)
    ELSE LET r == Xbox360_XDBF_isRomSupported_static(
                      [addr |-> 0, size |-> sizeof_XDBF_Header, pData |-> f])
             entry_table_length == HostValue(be_to_cpu(f.entry_table_length))
             free_space_table_length == HostValue(be_to_cpu(f.free_space_table_length))
             entry_table_sz == entry_table_length * sizeof_XDBF_Entry
         IN IF r.ret < 0 THEN XdbfCtorFail(n, r.examined)
            ELSE IF entry_table_length >= XDBF_MAX_ENTRIES
                 THEN XdbfCtorFail(n, sizeof_XDBF_Header)
            ELSE IF m # entry_table_sz
                 THEN XdbfCtorFail(n + m, sizeof_XDBF_Header)
            ELSE [isValid |-> TRUE, file |-> "open", read |-> n + m,
                  examined |-> sizeof_XDBF_Header,
                  entryTable |-> SubSeq(f.entries, 1,
                                        Min(entry_table_length, Len(f.entries))),
                  data_offset |-> sizeof_XDBF_Header + entry_table_sz +
                      free_space_table_length * sizeof_XDBF_Free_Space_Entry]

DetectClasses == {"Nintendo3DS_SMDH", "Xbox360_XDBF", "SID"}

\* The size each class's isRomSupported_static demands of the window.
MinHeaderSize(class) ==
    CASE class = "Nintendo3DS_SMDH" -> N3DS_SMDH_MIN_HEADER
      [] class = "Xbox360_XDBF" -> sizeof_XDBF_Entry
      [] class = "SID" -> sizeof_SID_Header

\* What the constructor reads first.
CtorReadSize(class) ==
    CASE class = "Nintendo3DS_SMDH" -> sizeof_smdh
      [] class = "Xbox360_XDBF" -> sizeof_XDBF_Header
      [] class = "SID" -> sizeof_SID_Header

\* The factory (or a test) calls isRomSupported_static on a window holding
\* the first `size` bytes of the file; buffer bytes that were not read hold
\* whatever was there before.
StaticDetect ==
    /\ dtClass \in DetectClasses
    /\ dtStatic = NoCall
    /\ \E size \in {n \in {0, 2, 4, 17, 18, 123, 124, 511, 512, HEADER_BUF_SIZE} :
                         n <= dtFile.len},
          addr \in {0, 32736} :
       \E junkMagic \in IF size >= 4 THEN {dtFile.magic}
                        ELSE {dtFile.magic, BE32Const(XDBF_MAGIC), BE32Const(PSID_MAGIC)},
          junkVersion \in IF size >= 8 THEN {dtFile.version}
                          ELSE {dtFile.version, BE32Const(XDBF_VERSION)} :
         LET pData == [magic |-> IF size >= 4 THEN dtFile.magic ELSE junkMagic,
                       version |-> IF size >= 8 THEN dtFile.version ELSE junkVersion]
             inf == [addr |-> addr, size |-> size, pData |-> pData]
             r == CASE dtClass = "Nintendo3DS_SMDH" ->
                          Nintendo3DS_SMDH_isRomSupported_static(inf)
                    [] dtClass = "Xbox360_XDBF" ->
                          Xbox360_XDBF_isRomSupported_static(inf)
                    [] dtClass = "SID" -> SID_isRomSupported_static(inf)
         IN dtStatic' = [op |-> "isRomSupported_static", size |-> size,
                         ret |-> r.ret, examined |-> r.examined]
    /\ UNCHANGED <<hostLE, laterVars, createVars, handlerVars, dtClass, dtFile, dtCtor>>

\* new <class>(file)
Construct ==
    /\ dtClass \in DetectClasses
    /\ dtCtor = NoCall
    /\ \E dup \in BOOLEAN,
          n \in ReadResults(dtFile.len, CtorReadSize(dtClass)) :
         LET r == CASE dtClass = "Nintendo3DS_SMDH" ->
                          Nintendo3DS_SMDH_ctor(dtFile, dup, n)
                    [] dtClass = "SID" -> SID_ctor(dtFile, dup, n)
                    [] dtClass = "Xbox360_XDBF" ->
                          LET etl == HostValue(be_to_cpu(dtFile.entry_table_length))
                              rest == IF dtFile.len > n THEN dtFile.len - n ELSE 0
                          IN Xbox360_XDBF_init(dtFile, dup, n,
                                 Min(rest, etl * sizeof_XDBF_Entry))
         IN dtCtor' = [op |-> "ctor", isValid |-> r.isValid, file |-> r.file,
                       read |-> r.read, examined |-> r.examined]
    /\ UNCHANGED <<hostLE, laterVars, createVars, handlerVars, dtClass, dtFile, dtStatic>>

\* The last two lengths hold a header and 1,048,575 or 1,048,576 entries.
DetectLens == {0, 3, 7, 17, 18, 20, 23, 24, 42, 123, 124, 511, 512, 14015, 14016,
               18874374, 18874392}
DetectMagics == {BEBytes(N3DS_SMDH_HEADER_MAGIC, 4), BEBytes(XDBF_MAGIC, 4),
                 BEBytes(PSID_MAGIC, 4), BEBytes(RSID_MAGIC, 4),
                 ReverseSeq(BEBytes(XDBF_MAGIC, 4)), <<0, 0, 0, 0>>}
DetectVersions == {BEBytes(XDBF_VERSION, 4), ReverseSeq(BEBytes(XDBF_VERSION, 4))}
XDBF_EntryCounts == {0, 1, 1048575, 1048576, 1048577}
ZeroEntry == [namespace_id |-> <<0, 0>>, resource_id |-> <<0, 0, 0, 0, 0, 0, 0, 0>>,
              offset |-> <<0, 0, 0, 0>>, length |-> <<0, 0, 0, 0>>]

DetectFiles ==
    {[len |-> l, magic |-> mg, version |-> v,
      entry_table_length |-> BEBytes(c, 4),
      free_space_table_length |-> BEBytes(0, 4),
      entries |-> IF c = 1 THEN <<ZeroEntry>> ELSE <<>>] :
        l \in DetectLens, mg \in DetectMagics, v \in DetectVersions,
        c \in XDBF_EntryCounts}

InitDetect ==
    /\ hostLE \in BOOLEAN
    /\ CreateIdle
    /\ HandlerIdle
    /\ FieldsIdle
    /\ RatingIdle
    /\ OnceIdle
    /\ IndexIdle
    /\ ImageIdle
    /\ dtClass \in DetectClasses
    /\ dtFile \in {f \in DetectFiles :
                     dtClass # "Xbox360_XDBF" => f.entry_table_length = BEBytes(0, 4)}
    /\ dtStatic = NoCall
    /\ dtCtor = NoCall

NextDetect ==
    \/ StaticDetect
    \/ Construct

SpecDetect == InitDetect /\ [][NextDetect]_vars

\* C4: for each of the three classes, a window or file shorter than the size
\* the class's detection demands is reported unsupported by
\* isRomSupported_static and gives an Invalid handler from the constructor,
\* and neither looks at a buffer byte beyond those read.
C4_ShortHeaderRejected ==
    /\ (dtStatic # NoCall /\ dtStatic.size < MinHeaderSize(dtClass)) =>
          (dtStatic.ret = -1 /\ dtStatic.examined <= dtStatic.size)
    /\ (dtCtor # NoCall /\ dtFile.len < MinHeaderSize(dtClass)) =>
          (~dtCtor.isValid /\ dtCtor.file = "nullptr" /\
           dtCtor.examined <= dtCtor.read)

\* A 3-byte file whose window buffer happens to hold a matching magic, after
\* both isRomSupported_static and the constructor have run on it.
C4_Witness ==
    /\ dtStatic # NoCall
    /\ dtCtor # NoCall
    /\ dtFile.len = 3
    /\ dtStatic.size = 2
    /\ dtCtor.read = 3

-----------------------------------------------------------------------------
(* The Xbox360_XDBF resource container handler.                            *)
(*                                                                         *)
(* Member functions become operators on a record st = [d, reads, allocs,   *)
(* ret]: the private object, the number of file reads issued and the set   *)
(* of buffer sizes allocated since the public call began, and the value    *)
(* the function returns.  Pointers are records; nullptr is a record too.   *)

XDBF_LANGUAGE_UNKNOWN == 0
XDBF_LANGUAGE_ENGLISH == 1
XDBF_LANGUAGE_JAPANESE == 2
XDBF_LANGUAGE_GERMAN == 3
XDBF_LANGUAGE_MAX == 13
XDBF_SPA_NAMESPACE_METADATA == 1
XDBF_SPA_NAMESPACE_IMAGE == 2
XDBF_SPA_NAMESPACE_STRING_TABLE == 3
XDBF_ID_TITLE == 32768                  \* 0x8000
XDBF_XSTC_MAGIC == 1481856067           \* 'XSTC'
XDBF_XSTR_MAGIC == 1481856082           \* 'XSTR'
XDBF_XACH_MAGIC == 1480672072           \* 'XACH'
XDBF_XTHD_MAGIC == 1481918532           \* 'XTHD'
XDBF_XGAA_MAGIC == 1481064769           \* 'XGAA'
XDBF_RES_VERSION == 1                   \* XDBF_XSTC/XSTR/XACH/XGAA_VERSION
sizeof_XDBF_XSTR_Header == 14
sizeof_XDBF_XSTR_Entry_Header == 4
sizeof_XDBF_XSTC == 16
sizeof_XDBF_XTHD == 44
sizeof_XDBF_XACH_Header == 14
sizeof_XDBF_XACH_Entry == 36
sizeof_XDBF_XGAA_Header == 14
sizeof_XDBF_XGAA_Entry == 36
XACH_MAX_COUNT == 512
XGAA_MAX_COUNT == 16
STR_TBL_MAX_SIZE == 1048576             \* 1024*1024
IMAGE_MIN_SIZE == 16
IMAGE_MAX_SIZE == 1048576               \* 1024*1024
NO_LOCKED_DESC == 65535                 \* 0xFFFF
EBADF == 9
EIO == 5
ENOENT == 2
ENOMEM == 12

nullptr == [ptr |-> "nullptr"]
Langs == 0 .. (XDBF_LANGUAGE_MAX - 1)

Begin(priv) == [d |-> priv, reads |-> 0, allocs |-> {}, ret |-> nullptr]

\* Then([x \in {e} |-> body]) is body with x the value of e: the state a
\* call returns, named once and used by the statements that follow it.
Then(f) == f[CHOOSE x \in DOMAIN f : TRUE]
With(st, r) == [st EXCEPT !.ret = r]
Alloc(st, size) == [st EXCEPT !.allocs = @ \cup {size}]

\* be16/be32/be64_to_cpu of a field as an integer.
FromBE(m) == HostValue(be_to_cpu(m))

\* file->seekAndRead(addr, buf, size): the bytes at addr and how many of
\* them the file really has.  ret is [n, buf].
seekAndRead(st, addr, size) ==
    LET off == addr - st.d.data_offset
        c == IF off \in DOMAIN hFile.res THEN hFile.res[off] ELSE [avail |-> 0]
    IN [st EXCEPT !.reads = @ + 1, !.ret = [n |-> Min(c.avail, size), buf |-> c]]

\* The lambda of findResource.
EntryMatches_idOnly(p, namespace_id, resource_id) ==
    p.resource_id = resource_id
EntryMatches(p, namespace_id, resource_id) ==
    p.namespace_id = namespace_id /\ p.resource_id = resource_id

\* Returns the 1-based position of the entry found, 0 for nullptr.
findResource(entryTable, namespace_id, resource_id) ==
    IF entryTable = <<>> THEN 0
    ELSE LET ns == cpu_to_be(HostBytes(namespace_id, 2))
             id == cpu_to_be(HostBytes(resource_id, 8))
             hits == {i \in 1..Len(entryTable) : EntryMatches(entryTable[i], ns, id)}
         IN IF hits = {} THEN 0
            ELSE CHOOSE i \in hits : \A j \in hits : i <= j

\* int16_t idx; idx++: the increment of a 16-bit signed counter.
Int16(n) == ((n + 32768) % 65536) - 32768

\* The loop of initStrTblIndexes from entry i on, with the counter idx the
\* code keeps next to the iterator.
RECURSIVE InitStrTblLoop(_, _, _, _, _)
InitStrTblLoop(entryTable, i, idx, total, idxs) ==
    IF i > Len(entryTable) \/ total >= XDBF_LANGUAGE_MAX THEN idxs
    ELSE LET p == entryTable[i]
             langID == FromBE(p.resource_id)
         IN IF p.namespace_id # cpu_to_be(HostBytes(XDBF_SPA_NAMESPACE_STRING_TABLE, 2))
            THEN InitStrTblLoop(entryTable, i + 1, Int16(idx + 1), total, idxs)
            ELSE IF langID >= XDBF_LANGUAGE_MAX
            THEN InitStrTblLoop(entryTable, i + 1, Int16(idx + 1), total, idxs)
            ELSE IF idxs[langID] < 0
            THEN InitStrTblLoop(entryTable, i + 1, Int16(idx + 1), total + 1,
                                [idxs EXCEPT ![langID] = idx])
            ELSE InitStrTblLoop(entryTable, i + 1, Int16(idx + 1), total, idxs)

\* strTblIndexes after initStrTblIndexes(); indexes are 0-based as in the code.
initStrTblIndexes(entryTable) ==
    IF entryTable = <<>> THEN [l \in Langs |-> -1]
    ELSE InitStrTblLoop(entryTable, 1, 0, 0, [l \in Langs |-> -1])

\* The private object after Xbox360_XDBF(file, xex) has returned.
Xbox360_XDBF_Private(f, xex, dup, n, m) ==
    LET c == Xbox360_XDBF_init(f, dup, n, m)
    IN [file |-> c.file, isValid |-> c.isValid, xex |-> xex,
        magic |-> IF c.isValid THEN f.magic ELSE <<0, 0, 0, 0>>,
        entryTable |-> c.entryTable, data_offset |-> c.data_offset,
        m_langID |-> XDBF_LANGUAGE_UNKNOWN,
        strTblIndexes |-> initStrTblIndexes(c.entryTable),
        strTbls |-> [l \in Langs |-> nullptr],
        map_images |-> <<>>, img_icon |-> nullptr,
        fields |-> <<>>, metaData |-> nullptr]

\* A fresh object for `key`: distinct from the one cached for it, if any.
NewObj(key, old) == IF old = nullptr THEN <<key, 1>> ELSE <<key, old.id[2] + 1>>

StrTblCached_never(strTbls, langID) == FALSE
StrTblCached(strTbls, langID) == strTbls[langID] # nullptr

StrTblSizeOutOfRange_noCeiling(str_tbl_sz) == str_tbl_sz <= sizeof_XDBF_XSTR_Header
StrTblSizeOutOfRange(str_tbl_sz) ==
    str_tbl_sz <= sizeof_XDBF_XSTR_Header \/ str_tbl_sz > STR_TBL_MAX_SIZE

loadStringTable(st, langID) ==
    IF langID <= XDBF_LANGUAGE_UNKNOWN \/ langID >= XDBF_LANGUAGE_MAX
    THEN With(st, nullptr)
    ELSE IF StrTblCached(st.d.strTbls, langID) THEN With(st, st.d.strTbls[langID])
    ELSE IF st.d.file = "nullptr" \/ ~st.d.isValid THEN With(st, nullptr)
    ELSE LET idx == st.d.strTblIndexes[langID] IN
    IF idx < 0 \/ idx >= Len(st.d.entryTable) THEN With(st, nullptr)
    ELSE LET entry == st.d.entryTable[idx + 1]
             str_tbl_sz == FromBE(entry.length)
         IN
    IF StrTblSizeOutOfRange(str_tbl_sz) THEN With(st, nullptr)
    ELSE LET str_tbl_addr == FromBE(entry.offset) + st.d.data_offset IN
    Then([r \in {seekAndRead(Alloc(st, str_tbl_sz), str_tbl_addr, str_tbl_sz)} |->
    IF r.ret.n # str_tbl_sz THEN With(r, nullptr)
    ELSE IF r.ret.buf.magic # BE32Const(XDBF_XSTR_MAGIC) \/
            r.ret.buf.version # BE32Const(XDBF_RES_VERSION)
    THEN With(r, nullptr)
    ELSE LET vec == [id |-> NewObj(<<"strTbl", langID>>, st.d.strTbls[langID]),
                     size |-> str_tbl_sz, recs |-> r.ret.buf.recs]
         IN [r EXCEPT !.d.strTbls[langID] = vec, !.ret = vec]])

\* dos2unix(): CR LF becomes LF.
dos2unix(text) == IF text = "Won\r\nit" THEN "Won\nit" ELSE text

\* The search loop of loadString over the records of a loaded table; p is
\* the offset of record i in the buffer.
RECURSIVE XstrSearch(_, _, _, _)
XstrSearch(vec, i, p, string_id) ==
    IF p >= vec.size \/ i > Len(vec.recs) THEN ""
    ELSE LET hdr == vec.recs[i]
             length == FromBE(hdr.length)
             p_str_end == p + sizeof_XDBF_XSTR_Entry_Header + length
         IN IF hdr.string_id = string_id
            THEN IF p_str_end <= vec.size THEN dos2unix(hdr.text) ELSE ""
            ELSE XstrSearch(vec, i + 1, p_str_end, string_id)

\* The bytes of the buffer that loop dereferences: the offset after the last
\* byte read, 0 when the loop body never runs.  Each iteration reads the
\* record header at p; the text is read only once found within bounds.
RECURSIVE XstrSearchExtent(_, _, _, _)
XstrSearchExtent(vec, i, p, string_id) ==
    IF p >= vec.size \/ i > Len(vec.recs) THEN 0
    ELSE LET hdr == vec.recs[i]
             length == FromBE(hdr.length)
             p_str == p + sizeof_XDBF_XSTR_Entry_Header
             p_str_end == p_str + length
             rest == IF hdr.string_id = string_id
                     THEN IF p_str_end <= vec.size THEN p_str_end ELSE 0
                     ELSE XstrSearchExtent(vec, i + 1, p_str_end, string_id)
         IN IF rest > p_str THEN rest ELSE p_str

loadString(st, langID, string_id) ==
    IF langID < 0 \/ langID >= XDBF_LANGUAGE_MAX THEN With(st, "")
    ELSE Then([t \in {IF st.d.strTbls[langID] # nullptr
                       THEN With(st, st.d.strTbls[langID])
                       ELSE loadStringTable(st, langID)} |->
            IF t.ret = nullptr THEN With(t, "")
            ELSE With(t, XstrSearch(t.ret, 1, sizeof_XDBF_XSTR_Header,
                                    cpu_to_be(HostBytes(string_id, 2))))])

SetLangID(st, langID) == [st EXCEPT !.d.m_langID = langID, !.ret = langID]

getLanguageID(st) ==
    IF st.d.m_langID # XDBF_LANGUAGE_UNKNOWN THEN With(st, st.d.m_langID)
    ELSE LET langID == sysLang      \* XboxLanguage::getXbox360Language()
             inRange == langID > XDBF_LANGUAGE_UNKNOWN /\ langID < XDBF_LANGUAGE_MAX
             e == findResource(st.d.entryTable, XDBF_SPA_NAMESPACE_METADATA,
                               XDBF_XSTC_MAGIC)
         IN
    Then([t1 \in {IF inRange THEN loadStringTable(st, langID)
                  ELSE With(st, nullptr)} |->
    IF inRange /\ t1.ret # nullptr THEN SetLangID(t1, langID)
    ELSE IF e = 0 THEN With(t1, XDBF_LANGUAGE_UNKNOWN)
    ELSE IF FromBE(st.d.entryTable[e].length) # sizeof_XDBF_XSTC
    THEN With(t1, XDBF_LANGUAGE_UNKNOWN)
    ELSE Then([r \in {seekAndRead(t1, FromBE(st.d.entryTable[e].offset) +
                                      st.d.data_offset, sizeof_XDBF_XSTC)} |->
    IF r.ret.n # sizeof_XDBF_XSTC THEN With(r, XDBF_LANGUAGE_UNKNOWN)
    ELSE IF r.ret.buf.magic # BE32Const(XDBF_XSTC_MAGIC) \/
            r.ret.buf.version # BE32Const(XDBF_RES_VERSION) \/
            r.ret.buf.size # BE32Const(sizeof_XDBF_XSTC - 4)
    THEN With(r, XDBF_LANGUAGE_UNKNOWN)
    ELSE LET langID_xstc == FromBE(r.ret.buf.default_language)
             xstcInRange == langID_xstc > XDBF_LANGUAGE_UNKNOWN /\
                            langID_xstc < XDBF_LANGUAGE_MAX
         IN
    IF langID_xstc # langID /\ ~xstcInRange THEN With(r, XDBF_LANGUAGE_UNKNOWN)
    ELSE Then([t2 \in {IF langID_xstc # langID
                       THEN loadStringTable(r, langID_xstc) ELSE With(r, nullptr)} |->
    IF langID_xstc # langID /\ t2.ret # nullptr THEN SetLangID(t2, langID_xstc)
    ELSE IF langID # XDBF_LANGUAGE_ENGLISH /\ langID_xstc # XDBF_LANGUAGE_ENGLISH
    THEN Then([t3 \in {loadStringTable(t2, XDBF_LANGUAGE_ENGLISH)} |->
            IF t3.ret # nullptr THEN SetLangID(t3, XDBF_LANGUAGE_ENGLISH)
            ELSE With(t3, XDBF_LANGUAGE_UNKNOWN)])
    ELSE With(t2, XDBF_LANGUAGE_UNKNOWN)])])])

\* XboxLanguage::getXbox360LanguageCode(): 0 for an id without a code.
getXbox360LanguageCode(langID) ==
    IF langID > XDBF_LANGUAGE_UNKNOWN /\ langID < XDBF_LANGUAGE_MAX
    THEN <<"en", "ja", "de", "fr", "es", "it", "ko", "zh", "pt", "hans", "pl", "ru">>[langID]
    ELSE "0"

getDefaultLC(st) ==
    Then([g \in {getLanguageID(st)} |->
        LET lc == getXbox360LanguageCode(g.ret)
        IN With(g, IF lc = "0" THEN "en" ELSE lc)])

\* RpPng::load(): nullptr unless the bytes decode.
RpPng_load(image_id, buf, old) ==
    IF buf.decodable THEN [id |-> NewObj(<<"image", image_id>>, old), png |-> buf.png]
    ELSE nullptr

ImageCached(map_images, image_id) == image_id \in DOMAIN map_images

\* if (img) map_images.insert(std::make_pair(image_id, img));
InsertImage_unchecked(map_images, image_id, img) ==
    [k \in DOMAIN map_images \cup {image_id} |-> IF k = image_id THEN img ELSE map_images[k]]
InsertImage(map_images, image_id, img) ==
    IF img # nullptr /\ image_id \notin DOMAIN map_images
    THEN [k \in DOMAIN map_images \cup {image_id} |->
            IF k = image_id THEN img ELSE map_images[k]]
    ELSE map_images

loadImage(st, image_id) ==
    IF ImageCached(st.d.map_images, image_id) THEN With(st, st.d.map_images[image_id])
    ELSE IF st.d.entryTable = <<>> THEN With(st, nullptr)
    ELSE IF st.d.file = "nullptr" \/ ~st.d.isValid THEN With(st, nullptr)
    ELSE LET e == findResource(st.d.entryTable, XDBF_SPA_NAMESPACE_IMAGE, image_id) IN
    IF e = 0 THEN With(st, nullptr)
    ELSE LET addr == FromBE(st.d.entryTable[e].offset) + st.d.data_offset
             length == FromBE(st.d.entryTable[e].length)
         IN
    IF length < IMAGE_MIN_SIZE \/ length > IMAGE_MAX_SIZE THEN With(st, nullptr)
    ELSE Then([r \in {seekAndRead(Alloc(st, length), addr, length)} |->
    IF r.ret.n # length THEN With(r, nullptr)
    ELSE LET img == RpPng_load(image_id, r.ret.buf,
                       IF image_id \in DOMAIN st.d.map_images
                       THEN st.d.map_images[image_id] ELSE nullptr)
         IN [r EXCEPT !.d.map_images = InsertImage(@, image_id, img), !.ret = img]])

loadIcon(st) ==
    IF st.d.img_icon # nullptr THEN With(st, st.d.img_icon)
    ELSE IF st.d.file = "nullptr" \/ ~st.d.isValid THEN With(st, nullptr)
    ELSE IF st.d.entryTable = <<>> THEN With(st, nullptr)
    ELSE Then([r \in {loadImage(st, XDBF_ID_TITLE)} |->
            [r EXCEPT !.d.img_icon = r.ret]])

getTitleType(st) ==
    LET e == findResource(st.d.entryTable, XDBF_SPA_NAMESPACE_METADATA, XDBF_XTHD_MAGIC)
    IN IF e = 0 THEN With(st, "nullptr")
       ELSE IF FromBE(st.d.entryTable[e].length) # sizeof_XDBF_XTHD THEN With(st, "nullptr")
       ELSE Then([r \in {seekAndRead(st, FromBE(st.d.entryTable[e].offset) +
                                         st.d.data_offset, sizeof_XDBF_XTHD)} |->
            LET title_type == FromBE(r.ret.buf.title_type)
            IN IF r.ret.n # sizeof_XDBF_XTHD THEN With(r, "nullptr")
               ELSE IF title_type < 4
               THEN With(r, <<"System Title", "Full Game", "Demo", "Download">>[title_type + 1])
               ELSE With(r, "nullptr")])

\* fields->addField_*(): one more field at the end.
addField(st, field) ==
    [st EXCEPT !.d.fields = Append(@, field), !.ret = Len(st.d.fields)]

\* The loop of addFields_strings over languages JAPANESE..MAX-1; ret is the
\* title map built so far.
RECURSIVE TitleLoop(_, _, _)
TitleLoop(st, langID, title_en) ==
    IF langID >= XDBF_LANGUAGE_MAX THEN st
    ELSE IF st.d.strTblIndexes[langID] < 0 THEN TitleLoop(st, langID + 1, title_en)
    ELSE Then([t \in {loadString(st, langID, XDBF_ID_TITLE)} |->
            LET pMap == st.ret
                lc == getXbox360LanguageCode(langID)
            IN IF (title_en # "" /\ t.ret = title_en) \/ lc = "0" \/ lc \in DOMAIN pMap
               THEN TitleLoop(With(t, pMap), langID + 1, title_en)
               ELSE TitleLoop(With(t, [k \in DOMAIN pMap \cup {lc} |->
                                          IF k = lc THEN t.ret ELSE pMap[k]]),
                              langID + 1, title_en)])

addFields_strings(st) ==
    Then([e \in {IF st.d.strTblIndexes[XDBF_LANGUAGE_ENGLISH] >= 0
                 THEN loadString(st, XDBF_LANGUAGE_ENGLISH, XDBF_ID_TITLE)
                 ELSE With(st, "")} |->
    LET title_en == e.ret IN
    Then([m \in {TitleLoop(With(e, IF title_en # "" THEN [k \in {"en"} |-> title_en]
                                   ELSE <<>>),
                           XDBF_LANGUAGE_JAPANESE, title_en)} |->
    LET pMap_title == m.ret IN
    Then([f1 \in {IF DOMAIN pMap_title # {}
                  THEN Then([lc \in {getDefaultLC(m)} |->
                          addField(lc, [name |-> "Title", type |-> "string_multi",
                                        data |-> pMap_title, def_lc |-> lc.ret])])
                  ELSE addField(m, [name |-> "Title", type |-> "string",
                                    data |-> "Unknown"])} |->
    Then([tt \in {getTitleType(f1)} |->
        addField(tt, [name |-> "Type", type |-> "string",
                      data |-> IF tt.ret = "nullptr" THEN "Unknown" ELSE tt.ret])])])])])

\* loadString(langID, id), then English when that is empty.
ListCell_englishFirst(st, langID, string_id) ==
    Then([t \in {loadString(st, XDBF_LANGUAGE_ENGLISH, string_id)} |->
        IF t.ret = "" /\ langID # XDBF_LANGUAGE_ENGLISH
        THEN loadString(t, langID, string_id)
        ELSE t])
ListCell(st, langID, string_id) ==
    Then([t \in {loadString(st, langID, string_id)} |->
        IF t.ret = "" /\ langID # XDBF_LANGUAGE_ENGLISH
        THEN loadString(t, XDBF_LANGUAGE_ENGLISH, string_id)
        ELSE t])

\* The per-language loop for one list entry; st.ret is pvv, the rows built so
\* far for each language that has a string table.  A description is the
\* sequence of its lines.
RECURSIVE ListLangLoop(_, _, _, _)
ListLangLoop(st, langID, ent, cells) ==
    IF langID >= XDBF_LANGUAGE_MAX THEN st
    ELSE IF langID \notin DOMAIN st.ret THEN ListLangLoop(st, langID + 1, ent, cells)
    ELSE LET pvv == st.ret
             desc_id == IF FromBE(ent.locked_desc_id) # NO_LOCKED_DESC
                        THEN FromBE(ent.locked_desc_id)
                        ELSE FromBE(ent.unlocked_desc_id)
         IN
    Then([nm \in {ListCell(st, langID, FromBE(ent.name_id))} |->
    Then([lck \in {ListCell(nm, langID, desc_id)} |->
        LET desc == (IF nm.ret # "" THEN <<nm.ret>> ELSE <<>>) \o
                    (IF lck.ret # "" THEN <<lck.ret>> ELSE <<>>)
            row == <<cells[1], desc>> \o Tail(cells)
        IN ListLangLoop(With(lck, [pvv EXCEPT ![langID] = Append(@, row)]),
                        langID + 1, ent, cells)])])

\* The loop over the entries of an XACH or XGAA buffer; st.ret is
\* [icons, pvv].  Entry i past the buffer is whatever lies behind it.
RECURSIVE ListEntryLoop(_, _, _, _, _)
ListEntryLoop(st, buf, i, count, isXACH) ==
    IF i >= count THEN st
    ELSE LET acc == st.ret
             ent == IF i + 1 <= Len(buf.entries) THEN buf.entries[i + 1] ELSE buf.beyond
             cells == IF isXACH
                      THEN <<[fmt |-> "%u", v |-> FromBE(ent.achievement_id)],
                             [fmt |-> "%u", v |-> FromBE(ent.gamerscore)]>>
                      ELSE <<[fmt |-> "%04X", v |-> FromBE(ent.avatar_award_id)]>>
         IN
    Then([icon \in {loadImage(st, FromBE(ent.image_id))} |->
    Then([rows \in {ListLangLoop(With(icon, acc.pvv), XDBF_LANGUAGE_ENGLISH,
                                 ent, cells)} |->
        ListEntryLoop(With(rows, [icons |-> Append(acc.icons, icon.ret),
                                  pvv |-> rows.ret]),
                      buf, i + 1, count, isXACH)])])

\* pvv_xach / pvv_xgaa before the loop, and the language-code map after it.
ListInit(st) ==
    [icons |-> <<>>,
     pvv |-> [l \in {k \in Langs : k >= XDBF_LANGUAGE_ENGLISH /\
                                  st.d.strTblIndexes[k] >= 0} |-> <<>>]]
ListMulti(pvv) ==
    [lc \in {getXbox360LanguageCode(l) : l \in DOMAIN pvv} \ {"0"} |->
        pvv[CHOOSE l \in DOMAIN pvv : getXbox360LanguageCode(l) = lc]]

addFields_achievements(st) ==
    IF st.d.entryTable = <<>> THEN With(st, 1)
    ELSE IF st.d.file = "nullptr" \/ ~st.d.isValid THEN With(st, 2)
    ELSE LET e == findResource(st.d.entryTable, XDBF_SPA_NAMESPACE_METADATA,
                               XDBF_XACH_MAGIC) IN
    IF e = 0 THEN With(st, 3)
    ELSE LET addr == FromBE(st.d.entryTable[e].offset) + st.d.data_offset
             length == FromBE(st.d.entryTable[e].length)
         IN
    IF length < sizeof_XDBF_XACH_Header \/
       length > sizeof_XDBF_XACH_Header + sizeof_XDBF_XACH_Entry * XACH_MAX_COUNT
    THEN With(st, 4)
    ELSE Then([r \in {seekAndRead(Alloc(st, length), addr, length)} |->
    IF r.ret.n # length THEN With(r, 5)
    ELSE IF r.ret.buf.magic # BE32Const(XDBF_XACH_MAGIC) \/
            r.ret.buf.version # BE32Const(XDBF_RES_VERSION)
    THEN With(r, 6)
    ELSE LET declared == FromBE(r.ret.buf.xach_count)
             fit == (length - sizeof_XDBF_XACH_Header) \div sizeof_XDBF_XACH_Entry
             xach_count == IF declared > XACH_MAX_COUNT THEN XACH_MAX_COUNT
                           ELSE IF declared > fit THEN fit ELSE declared
         IN
    Then([l \in {ListEntryLoop(With(r, ListInit(r)), r.ret.buf, 0, xach_count, TRUE)} |->
    Then([lc \in {getDefaultLC(l)} |->
        With(addField(lc, [name |-> "Achievements", type |-> "listData",
                           headers |-> <<"ID", "Description", "Gamerscore">>,
                           data |-> ListMulti(l.ret.pvv), def_lc |-> lc.ret,
                           icons |-> l.ret.icons]), 0)])])])

addFields_avatarAwards(st) ==
    IF st.d.entryTable = <<>> THEN With(st, 1)
    ELSE IF st.d.file = "nullptr" \/ ~st.d.isValid THEN With(st, 2)
    ELSE LET e == findResource(st.d.entryTable, XDBF_SPA_NAMESPACE_METADATA,
                               XDBF_XGAA_MAGIC) IN
    IF e = 0 THEN With(st, 3)
    ELSE LET addr == FromBE(st.d.entryTable[e].offset) + st.d.data_offset
             length == FromBE(st.d.entryTable[e].length)
         IN
    IF length = sizeof_XDBF_XGAA_Header THEN With(st, 4)
    ELSE IF length < sizeof_XDBF_XGAA_Header \/
            length > sizeof_XDBF_XGAA_Header + sizeof_XDBF_XGAA_Entry * XGAA_MAX_COUNT
    THEN With(st, 5)
    ELSE Then([r \in {seekAndRead(Alloc(st, length), addr, length)} |->
    IF r.ret.n # length THEN With(r, 6)
    ELSE IF r.ret.buf.magic # BE32Const(XDBF_XGAA_MAGIC) \/
            r.ret.buf.version # BE32Const(XDBF_RES_VERSION)
    THEN With(r, 7)
    ELSE LET declared == FromBE(r.ret.buf.xgaa_count)
             fit == (length - sizeof_XDBF_XGAA_Header) \div sizeof_XDBF_XGAA_Entry
             xgaa_count == IF declared > XGAA_MAX_COUNT THEN XGAA_MAX_COUNT
                           ELSE IF declared > fit THEN fit ELSE declared
         IN
    IF declared = 0 THEN With(r, 8)
    ELSE
    Then([l \in {ListEntryLoop(With(r, ListInit(r)), r.ret.buf, 0, xgaa_count, FALSE)} |->
        With(addField(l, [name |-> "Avatar Awards", type |-> "listData",
                          headers |-> <<"ID", "Description">>,
                          data |-> ListMulti(l.ret.pvv), icons |-> l.ret.icons]), 0)])])

\* if (!d->fields->empty()) return 0;
FieldDataLoaded_never(fields) == FALSE
FieldDataLoaded(fields) == fields # <<>>

Xbox360_XDBF_loadFieldData(st) ==
    IF FieldDataLoaded(st.d.fields) THEN With(st, 0)
    ELSE IF st.d.file = "nullptr" THEN With(st, -EBADF)
    ELSE IF ~st.d.isValid THEN With(st, -EIO)
    ELSE IF st.d.magic # BE32Const(XDBF_MAGIC) THEN With(st, 0)
    ELSE Then([a \in {addFields_achievements(addFields_avatarAwards(
                          IF ~st.d.xex THEN addFields_strings(st) ELSE st))} |->
            With(a, Len(a.d.fields))])

\* ret is [ret, pImage].
Xbox360_XDBF_loadInternalImage(st, imageType) ==
    IF imageType # "IMG_INT_ICON" THEN With(st, [ret |-> -ENOENT, pImage |-> nullptr])
    ELSE IF st.d.img_icon # nullptr THEN With(st, [ret |-> 0, pImage |-> st.d.img_icon])
    ELSE IF st.d.file = "nullptr" THEN With(st, [ret |-> -EBADF, pImage |-> nullptr])
    ELSE IF ~st.d.isValid THEN With(st, [ret |-> -EIO, pImage |-> nullptr])
    ELSE Then([r \in {loadIcon(st)} |->
            With(r, [ret |-> IF r.ret # nullptr THEN 0 ELSE -EIO, pImage |-> r.ret])])

Xbox360_XDBF_getString(st, property) ==
    LET string_id == IF property = "Title" THEN XDBF_ID_TITLE ELSE 0
    IN IF string_id = 0 THEN With(st, "")
       ELSE Then([g \in {getLanguageID(st)} |-> loadString(g, g.ret, string_id)])

-----------------------------------------------------------------------------
(* The GameCubeBNR banner handler.                                         *)

GCN_BANNER_MAGIC_BNR1 == 1112429105     \* 'BNR1'
GCN_BANNER_MAGIC_BNR2 == 1112429106     \* 'BNR2'
sizeof_gcn_banner_bnr1_t == 6496        \* 0x1960
sizeof_gcn_banner_bnr2_t == 8096        \* 0x1FA0
sizeof_gcn_banner_comment_t == 320      \* 0x140
GCN_BANNER_IMAGE_SIZE == 6144           \* 96*32*2
offsetof_gcn_banner_banner == 32        \* 0x0020
offsetof_gcn_banner_comment == 6176     \* 0x1820
BANNER_UNKNOWN == -1
BANNER_BNR1 == 0
BANNER_BNR2 == 1
GCN_PAL_LANG_ENGLISH == 0

\* A read of `size` bytes at `addr` from a file of hFile.len bytes.
Read(st, ok, addr, size) ==
    [st EXCEPT !.reads = @ + 1,
               !.ret = IF ok /\ hFile.len > addr THEN Min(hFile.len - addr, size) ELSE 0]

GameCubeBNR_isRomSupported_static(inf) ==
    IF inf.addr # 0 \/ inf.size < 4 THEN -1
    ELSE LET bnr_magic == FromBE(inf.pData.magic)
         IN IF bnr_magic = GCN_BANNER_MAGIC_BNR1 /\ inf.szFile >= sizeof_gcn_banner_bnr1_t
            THEN BANNER_BNR1
            ELSE IF bnr_magic = GCN_BANNER_MAGIC_BNR2 /\
                    inf.szFile >= sizeof_gcn_banner_bnr2_t
            THEN BANNER_BNR2
            ELSE -1

\* The private object after GameCubeBNR(file) has returned.
GameCubeBNR_Private(f, dup) ==
    LET none == [file |-> "nullptr", isValid |-> FALSE, bannerType |-> BANNER_UNKNOWN,
                 comments |-> nullptr, img_banner |-> nullptr,
                 fields |-> <<>>, metaData |-> nullptr]
        bt == GameCubeBNR_isRomSupported_static(
                  [addr |-> 0, size |-> 4, pData |-> f, szFile |-> f.len])
        num == IF bt = BANNER_BNR1 THEN 1 ELSE IF bt = BANNER_BNR2 THEN 6 ELSE 0
        expSize == sizeof_gcn_banner_comment_t * num
        size == IF f.commentsOK /\ f.len > offsetof_gcn_banner_comment
                THEN Min(f.len - offsetof_gcn_banner_comment, expSize) ELSE 0
    IN IF ~dup THEN none
       ELSE IF Min(f.len, 4) # 4 THEN none
       ELSE IF bt < 0 THEN [none EXCEPT !.bannerType = bt]
       ELSE [none EXCEPT !.file = "open", !.isValid = TRUE, !.bannerType = bt,
                         !.comments = IF num > 0 /\ size = expSize
                                      THEN [v |-> SubSeq(f.comments, 1, num)]
                                      ELSE nullptr]

\* NintendoLanguage::getGcnPalLanguage(): the PAL language of the system.
getGcnPalLanguage == sysLang

CommentEmpty(c) ==
    c.gamename = "" /\ c.company = "" /\ c.gamename_full = "" /\
    c.company_full = "" /\ c.gamedesc = ""

getComment(priv) ==
    IF priv.comments = nullptr THEN nullptr
    ELSE IF priv.bannerType = BANNER_BNR1 THEN priv.comments.v[1]
    ELSE IF priv.bannerType = BANNER_BNR2
    THEN LET c == priv.comments.v[getGcnPalLanguage + 1]
         IN IF CommentEmpty(c) THEN priv.comments.v[GCN_PAL_LANG_ENGLISH + 1] ELSE c
    ELSE nullptr

\* cp1252_to_utf8 / latin1_to_utf8: bytes below 0x80 stay, 0xE9 becomes C3 A9.
cp1252_to_utf8(text) == IF text = "Caf<E9>" THEN "Caf<C3><A9>" ELSE text

BnrMetaLoaded(metaData) == metaData # nullptr

GameCubeBNR_loadFieldData(st) ==
    IF FieldDataLoaded(st.d.fields) THEN With(st, 0)
    ELSE IF st.d.file = "nullptr" THEN With(st, -EBADF)
    ELSE IF ~st.d.isValid \/ st.d.bannerType < 0 THEN With(st, -EIO)
    ELSE LET comment == getComment(st.d) IN
    IF comment = nullptr THEN With(st, Len(st.d.fields))
    ELSE LET f1 == IF comment.gamename_full # ""
                   THEN addField(st, [name |-> "Game Name", type |-> "string",
                                      data |-> cp1252_to_utf8(comment.gamename_full)])
                   ELSE IF comment.gamename # ""
                   THEN addField(st, [name |-> "Game Name", type |-> "string",
                                      data |-> cp1252_to_utf8(comment.gamename)])
                   ELSE st
             f2 == IF comment.company_full # ""
                   THEN addField(f1, [name |-> "Company", type |-> "string",
                                      data |-> cp1252_to_utf8(comment.company_full)])
                   ELSE IF comment.company # ""
                   THEN addField(f1, [name |-> "Company", type |-> "string",
                                      data |-> cp1252_to_utf8(comment.company)])
                   ELSE f1
             f3 == IF comment.gamedesc # ""
                   THEN addField(f2, [name |-> "Description", type |-> "string",
                                      data |-> cp1252_to_utf8(comment.gamedesc)])
                   ELSE f2
         IN With(f3, Len(f3.d.fields))

\* d->metaData->addMetaData_string(name, str)
addMetaData(st, name, str) ==
    [st EXCEPT !.d.metaData.props = Append(@, [name |-> name, data |-> str])]

GameCubeBNR_loadMetaData(st) ==
    IF BnrMetaLoaded(st.d.metaData) THEN With(st, 0)
    ELSE IF st.d.file = "nullptr" THEN With(st, -EBADF)
    ELSE IF ~st.d.isValid \/ st.d.bannerType < 0 THEN With(st, -EIO)
    ELSE LET comment == getComment(st.d) IN
    IF comment = nullptr THEN With(st, 0)
    ELSE LET m0 == [st EXCEPT !.d.metaData =
                        [id |-> NewObj(<<"metaData">>, st.d.metaData), props |-> <<>>]]
             m1 == IF comment.gamename_full # ""
                   THEN addMetaData(m0, "Title", cp1252_to_utf8(comment.gamename_full))
                   ELSE IF comment.gamename # ""
                   THEN addMetaData(m0, "Title", cp1252_to_utf8(comment.gamename_full))
                   ELSE m0
             m2 == IF comment.company_full # ""
                   THEN addMetaData(m1, "Publisher", cp1252_to_utf8(comment.company_full))
                   ELSE IF comment.company # ""
                   THEN addMetaData(m1, "Publisher", cp1252_to_utf8(comment.company))
                   ELSE m1
             m3 == IF comment.gamedesc # ""
                   THEN addMetaData(m2, "Subject", cp1252_to_utf8(comment.gamedesc))
                   ELSE m2
         IN With(m3, Len(m3.d.metaData.props))

loadBanner(st) ==
    IF st.d.img_banner # nullptr THEN With(st, st.d.img_banner)
    ELSE IF st.d.file = "nullptr" \/ ~st.d.isValid THEN With(st, nullptr)
    ELSE LET r == Read(Alloc(st, GCN_BANNER_IMAGE_SIZE), hFile.bannerOK,
                       offsetof_gcn_banner_banner, GCN_BANNER_IMAGE_SIZE)
         IN IF r.ret # GCN_BANNER_IMAGE_SIZE THEN With(r, nullptr)
            ELSE LET img == [id |-> NewObj(<<"banner">>, st.d.img_banner),
                             px |-> hFile.banner]
                 IN [r EXCEPT !.d.img_banner = img, !.ret = img]

\* ret is [ret, pImage]; pImage is "unset" where the code does not store to it.
GameCubeBNR_loadInternalImage(st, imageType) ==
    IF imageType # "IMG_INT_BANNER" THEN With(st, [ret |-> -ENOENT, pImage |-> nullptr])
    ELSE IF st.d.img_banner # nullptr
    THEN With(st, [ret |-> 0, pImage |-> st.d.img_banner])
    ELSE IF st.d.file = "nullptr" THEN With(st, [ret |-> -EBADF, pImage |-> [ptr |-> "unset"]])
    ELSE IF ~st.d.isValid \/ st.d.bannerType < 0
    THEN With(st, [ret |-> -EIO, pImage |-> [ptr |-> "unset"]])
    ELSE LET r == loadBanner(st)
         IN With(r, [ret |-> IF r.ret # nullptr THEN 0 ELSE -EIO, pImage |-> r.ret])

-----------------------------------------------------------------------------
(* The SID music handler.                                                  *)

\* The private object after SID(file) has returned.
SID_Private(f, dup) ==
    LET c == SID_ctor(f, dup, Min(f.len, sizeof_SID_Header))
    IN [file |-> c.file, isValid |-> c.isValid, sidHeader |-> f,
        fields |-> <<>>, metaData |-> nullptr]

\* addField_string_numeric(name, val, base, digits): the format and the value.
Numeric(name, fmt, val) == [name |-> name, type |-> "string", fmt |-> fmt, data |-> val]

SID_loadFieldData(st) ==
    IF FieldDataLoaded(st.d.fields) THEN With(st, 0)
    ELSE IF st.d.file = "nullptr" THEN With(st, -EBADF)
    ELSE IF ~st.d.isValid THEN With(st, -EIO)
    ELSE LET h == st.d.sidHeader
             magic == FromBE(h.magic)
             f1 == addField(st, [name |-> "Type", type |-> "string",
                       data |-> IF magic = PSID_MAGIC THEN "PlaySID"
                                ELSE IF magic = RSID_MAGIC THEN "RealSID"
                                ELSE "Unknown"])
             f2 == addField(f1, Numeric("Version", "%0*u", FromBE(h.version)))
             f3 == IF h.name # ""
                   THEN addField(f2, [name |-> "Name", type |-> "string",
                                      data |-> cp1252_to_utf8(h.name)])
                   ELSE f2
             f4 == IF h.author # ""
                   THEN addField(f3, [name |-> "Author", type |-> "string",
                                      data |-> cp1252_to_utf8(h.author)])
                   ELSE f3
             f5 == IF h.copyright # ""
                   THEN addField(f4, [name |-> "Copyright", type |-> "string",
                                      data |-> cp1252_to_utf8(h.copyright)])
                   ELSE f4
             f6 == addField(f5, Numeric("Load Address", "0x%0*X", FromBE(h.loadAddress)))
             f7 == addField(f6, Numeric("Init Address", "0x%0*X", FromBE(h.initAddress)))
             f8 == addField(f7, Numeric("Play Address", "0x%0*X", FromBE(h.playAddress)))
             f9 == addField(f8, Numeric("# of Songs", "%0*u", FromBE(h.songs)))
             f10 == addField(f9, Numeric("Starting Song #", "%0*u", FromBE(h.startSong)))
         IN With(f10, Len(f10.d.fields))

SID_loadMetaData(st) ==
    IF st.d.metaData # nullptr THEN With(st, 0)
    ELSE IF st.d.file = "nullptr" THEN With(st, -EBADF)
    ELSE IF ~st.d.isValid THEN With(st, -EIO)
    ELSE LET h == st.d.sidHeader
             m0 == [st EXCEPT !.d.metaData =
                        [id |-> NewObj(<<"metaData">>, st.d.metaData), props |-> <<>>]]
             m1 == IF h.name # ""
                   THEN addMetaData(m0, "Title", cp1252_to_utf8(h.name)) ELSE m0
             m2 == IF h.author # ""
                   THEN addMetaData(m1, "Author", cp1252_to_utf8(h.author)) ELSE m1
             m3 == IF h.copyright # ""
                   THEN addMetaData(m2, "Copyright", cp1252_to_utf8(h.copyright)) ELSE m2
         IN With(m3, Len(m3.d.fields))

-----------------------------------------------------------------------------
(* The PowerVR3 texture handler: the constructor and loadPvr3Metadata.     *)

PVR3_VERSION_HOST == 55727696           \* 0x03525650
PVR3_VERSION_SWAP == 1347834371         \* 0x50565203
PVR3_META_ORIENTATION == 3
PVR3_METADATA_MAX == 131072             \* 128*1024
sizeof_PowerVR3_Header == 52
sizeof_PowerVR3_Metadata_Block_Header_t == 12
sizeof_orientation == 3

\* A 32-bit field of the file as this handler uses it.
Pvr3Value(swap, m) == IF swap THEN HostValue(bswap(m)) ELSE HostValue(m)

\* The parse loop.  Block i starts at offset p of the buffer; a block's
\* data is as long as its header says, an orientation block's is 3 bytes,
\* and what follows the last block is zero bytes.
RECURSIVE Pvr3MetaLoop(_, _, _)
Pvr3MetaLoop(st, p, i) ==
    IF ~(p + sizeof_PowerVR3_Metadata_Block_Header_t < st.d.metadata_size) THEN st
    ELSE IF i > Len(hFile.blocks) THEN st
    ELSE LET pHdr == hFile.blocks[i]
             fourCC == Pvr3Value(st.d.isByteswapNeeded, pHdr.fourCC)
             key == Pvr3Value(st.d.isByteswapNeeded, pHdr.key)
             size == Pvr3Value(st.d.isByteswapNeeded, pHdr.size)
             q == p + sizeof_PowerVR3_Metadata_Block_Header_t
         IN IF fourCC # PVR3_VERSION_HOST THEN Pvr3MetaLoop(st, q + size, i + 1)
            ELSE IF key = PVR3_META_ORIENTATION
            THEN IF q + sizeof_orientation > st.d.metadata_size THEN st
                 ELSE Pvr3MetaLoop(
                        [st EXCEPT !.d.orientation = pHdr.data,
                                   !.d.orientation_valid = TRUE,
                                   !.d.isFlipNeeded =
                                       (IF pHdr.data[1] # 0 THEN {"FLIP_H"} ELSE {}) \cup
                                       (IF pHdr.data[2] # 0 THEN {"FLIP_V"} ELSE {})],
                        q + sizeof_orientation, i + 1)
            ELSE Pvr3MetaLoop(st, q + size, i + 1)

Pvr3MetaTooLarge(metadata_size) == metadata_size > PVR3_METADATA_MAX

loadPvr3Metadata(st) ==
    IF st.d.metadata_size = 0 THEN With(st, 0)
    ELSE IF st.d.metadata_size <= sizeof_PowerVR3_Metadata_Block_Header_t
    THEN With(st, -EIO)
    ELSE IF Pvr3MetaTooLarge(st.d.metadata_size) THEN With(st, -ENOMEM)
    ELSE LET r == Read(Alloc(st, st.d.metadata_size), hFile.metaOK,
                       sizeof_PowerVR3_Header, st.d.metadata_size)
         IN IF r.ret # st.d.metadata_size THEN With(r, -EIO)
            ELSE With(Pvr3MetaLoop(r, 0, 1), 0)

\* PowerVR3(file) up to and including its call of loadPvr3Metadata; the
\* reads and allocations counted are those of loadPvr3Metadata.
PowerVR3_Private(f, dup) ==
    LET none == [constructed |-> TRUE, file |-> "nullptr", isValid |-> FALSE,
                 isByteswapNeeded |-> FALSE, metadata_size |-> 0,
                 orientation_valid |-> FALSE, orientation |-> <<0, 0, 0>>,
                 isFlipNeeded |-> {}, texDataStartAddr |-> 0]
        version == HostValue(f.version)
        swap == version = PVR3_VERSION_SWAP
        metadata_size == Pvr3Value(swap, f.metadata_size)
    IN IF ~dup THEN Begin(none)
       ELSE IF Min(f.len, sizeof_PowerVR3_Header) # sizeof_PowerVR3_Header THEN Begin(none)
       ELSE IF version # PVR3_VERSION_HOST /\ version # PVR3_VERSION_SWAP THEN Begin(none)
       ELSE loadPvr3Metadata(Begin(
                [none EXCEPT !.file = "open", !.isValid = TRUE,
                             !.isByteswapNeeded = swap,
                             !.metadata_size = metadata_size,
                             !.texDataStartAddr = sizeof_PowerVR3_Header + metadata_size]))

-----------------------------------------------------------------------------
(* The files the handlers are constructed on.                              *)

XdbfFileLen == 4000000

Entry(ns, id, offset, length) ==
    [namespace_id |-> BEBytes(ns, 2), resource_id |-> BEBytes(id, 8),
     offset |-> BEBytes(offset, 4), length |-> BEBytes(length, 4)]

NoSlot == [ent |-> <<>>, res |-> <<>>]
Slot(e, content) == [ent |-> <<e>>, res |-> (BEValue(e.offset) :> content)]

XstrRec(id, text, n) ==
    [string_id |-> BEBytes(id, 2), length |-> BEBytes(n, 2), text |-> text]

\* An XSTR string table for langID at offset off.  "full" has the title and
\* string 1, "notitle" only string 1; the other kinds are damaged tables.
\* A "cuttext" table ends one byte before the end of its last string, a
\* "cuthdr" table two bytes into the header of its last record.
StrTblSlot(langID, kind, off) ==
    LET title == IF langID = XDBF_LANGUAGE_ENGLISH THEN "Halo" ELSE "Heiro"
        tlen == IF langID = XDBF_LANGUAGE_ENGLISH THEN 4 ELSE 5
        recs == IF kind = "notitle" THEN <<XstrRec(1, "Won", 3)>>
                ELSE IF kind = "titleonly" THEN <<XstrRec(XDBF_ID_TITLE, title, tlen)>>
                ELSE <<XstrRec(XDBF_ID_TITLE, title, tlen), XstrRec(1, "Won\r\nit", 7)>>
        exact == IF kind = "notitle" THEN 21
                 ELSE IF kind = "titleonly" THEN 18 + tlen ELSE 29 + tlen
        length == CASE kind = "huge" -> STR_TBL_MAX_SIZE + 1
                    [] kind = "max" -> STR_TBL_MAX_SIZE
                    [] kind = "tiny" -> sizeof_XDBF_XSTR_Header
                    [] kind = "cuttext" -> exact - 1
                    [] kind = "cuthdr" -> exact - 9
                    [] OTHER -> exact
    IN IF kind = "none" THEN NoSlot
       ELSE Slot(Entry(XDBF_SPA_NAMESPACE_STRING_TABLE, langID, off, length),
                 [magic |-> IF kind = "badmagic" THEN <<0, 0, 0, 0>>
                            ELSE BEBytes(XDBF_XSTR_MAGIC, 4),
                  version |-> BEBytes(XDBF_RES_VERSION, 4),
                  recs |-> recs,
                  avail |-> IF kind = "short" THEN length - 1 ELSE length])

\* A PNG image resource.
ImgSlot(image_id, kind, off) ==
    LET length == CASE kind = "huge" -> IMAGE_MAX_SIZE + 1
                    [] kind = "tiny" -> IMAGE_MIN_SIZE - 1
                    [] OTHER -> 100
    IN IF kind = "none" THEN NoSlot
       ELSE Slot(Entry(XDBF_SPA_NAMESPACE_IMAGE, image_id, off, length),
                 [decodable |-> kind # "corrupt", png |-> <<"png", image_id>>,
                  avail |-> IF kind = "short" THEN length - 1 ELSE length])

\* The XSTC default-language resource.
XstcSlot(kind, off) ==
    IF kind = "none" THEN NoSlot
    ELSE Slot(Entry(XDBF_SPA_NAMESPACE_METADATA, XDBF_XSTC_MAGIC, off,
                    IF kind = "badsize" THEN sizeof_XDBF_XSTC - 4 ELSE sizeof_XDBF_XSTC),
              [magic |-> IF kind = "badmagic" THEN <<0, 0, 0, 0>>
                         ELSE BEBytes(XDBF_XSTC_MAGIC, 4),
               version |-> BEBytes(XDBF_RES_VERSION, 4),
               size |-> BEBytes(sizeof_XDBF_XSTC - 4, 4),
               default_language |->
                   BEBytes(CASE kind = "EN" -> XDBF_LANGUAGE_ENGLISH
                             [] kind = "JA" -> XDBF_LANGUAGE_JAPANESE
                             [] kind = "DE" -> XDBF_LANGUAGE_GERMAN
                             [] OTHER -> XDBF_LANGUAGE_UNKNOWN, 4),
               avail |-> IF kind = "short" THEN sizeof_XDBF_XSTC - 1
                         ELSE sizeof_XDBF_XSTC])

\* The XTHD title header.
XthdSlot(kind, off) ==
    IF kind = "none" THEN NoSlot
    ELSE Slot(Entry(XDBF_SPA_NAMESPACE_METADATA, XDBF_XTHD_MAGIC, off, sizeof_XDBF_XTHD),
              [title_type |-> BEBytes(1, 4), avail |-> sizeof_XDBF_XTHD])

\* An XACH or XGAA table with one entry, which names string 1, describes
\* itself with string 2 and shows the title image.  A table of kind "two"
\* declares two entries, one of kind "over" one more than the maximum; a
\* table of kind "pair" has a second entry, which names the title string,
\* describes itself with string 1 and shows an image that is not there.
ListSlot(magic, kind, off) ==
    LET count == CASE kind \in {"two", "pair"} -> 2
                   [] kind = "over" -> 1 + (IF magic = XDBF_XGAA_MAGIC
                                            THEN XGAA_MAX_COUNT ELSE XACH_MAX_COUNT)
                   [] OTHER -> 1
        ent == [achievement_id |-> BEBytes(7, 2), avatar_award_id |-> BEBytes(7, 2),
                name_id |-> BEBytes(1, 2), unlocked_desc_id |-> BEBytes(2, 2),
                locked_desc_id |-> BEBytes(NO_LOCKED_DESC, 2),
                gamerscore |-> BEBytes(10, 2), image_id |-> BEBytes(XDBF_ID_TITLE, 4)]
        ent2 == [achievement_id |-> BEBytes(8, 2), avatar_award_id |-> BEBytes(8, 2),
                 name_id |-> BEBytes(XDBF_ID_TITLE, 2), unlocked_desc_id |-> BEBytes(2, 2),
                 locked_desc_id |-> BEBytes(1, 2),
                 gamerscore |-> BEBytes(20, 2), image_id |-> BEBytes(XDBF_ID_TITLE + 1, 4)]
        ents == IF kind = "pair" THEN <<ent, ent2>> ELSE <<ent>>
    IN IF kind = "none" THEN NoSlot
       ELSE Slot(Entry(XDBF_SPA_NAMESPACE_METADATA, magic, off,
                       sizeof_XDBF_XACH_Header + Len(ents) * sizeof_XDBF_XACH_Entry),
                 [magic |-> IF kind = "badmagic" THEN <<0, 0, 0, 0>> ELSE BEBytes(magic, 4),
                  version |-> BEBytes(XDBF_RES_VERSION, 4),
                  xach_count |-> BEBytes(count, 2), xgaa_count |-> BEBytes(count, 2),
                  entries |-> ents, beyond |-> ent,
                  avail |-> sizeof_XDBF_XACH_Header + Len(ents) * sizeof_XDBF_XACH_Entry])

RECURSIVE JoinSlots(_)
JoinSlots(slots) ==
    IF slots = <<>> THEN NoSlot
    ELSE LET rest == JoinSlots(Tail(slots))
         IN [ent |-> Head(slots).ent \o rest.ent, res |-> Head(slots).res @@ rest.res]

XdbfFile(magic, slots) ==
    LET j == JoinSlots(slots)
    IN [len |-> XdbfFileLen, magic |-> magic, version |-> BEBytes(XDBF_VERSION, 4),
        entry_table_length |-> BEBytes(Len(j.ent), 4),
        free_space_table_length |-> BEBytes(0, 4),
        entries |-> j.ent, res |-> j.res]

\* Containers that differ in the languages they carry.
XdbfLanguageFile(en, ja, x) ==
    XdbfFile(BEBytes(XDBF_MAGIC, 4),
             <<StrTblSlot(XDBF_LANGUAGE_ENGLISH, en, 0),
               StrTblSlot(XDBF_LANGUAGE_JAPANESE, ja, 100),
               XstcSlot(x, 200), ImgSlot(XDBF_ID_TITLE, "ok", 300),
               XthdSlot("ok", 400), ListSlot(XDBF_XACH_MAGIC, "one", 500)>>)

XdbfLanguageFiles ==
    {XdbfLanguageFile(en, ja, x) :
        en \in {"none", "full"}, ja \in {"none", "full", "notitle"},
        x \in {"none", "JA", "DE"}} \cup
    {XdbfLanguageFile("full", "full", "EN"), XdbfLanguageFile("full", "notitle", "badsize"),
     XdbfLanguageFile("notitle", "full", "none"),
     XdbfLanguageFile("full", "none", "short"), XdbfLanguageFile("full", "none", "badmagic"),
     XdbfLanguageFile("cuttext", "none", "EN"), XdbfLanguageFile("cuthdr", "none", "EN")}

\* Containers with a damaged or oversized resource.
XdbfFaultyFile(en, img, g) ==
    XdbfFile(BEBytes(XDBF_MAGIC, 4),
             <<StrTblSlot(XDBF_LANGUAGE_ENGLISH, en, 0),
               StrTblSlot(XDBF_LANGUAGE_JAPANESE, "full", 100),
               XstcSlot("EN", 200), ImgSlot(XDBF_ID_TITLE, img, 300),
               ListSlot(XDBF_XACH_MAGIC, "one", 500),
               ListSlot(XDBF_XGAA_MAGIC, g, 600)>>)

XdbfFaultyFiles ==
    {XdbfFaultyFile(en, "ok", "none") :
        en \in {"badmagic", "short", "huge", "max", "tiny"}} \cup
    {XdbfFaultyFile("huge", img, g) :
        img \in {"none", "ok", "corrupt", "short", "huge", "tiny"},
        g \in {"none", "one"}} \cup
    {XdbfFaultyFile("huge", "ok", g) : g \in {"two", "over"}}

\* Containers with two achievements and a Japanese string table that has
\* all, some or none of their strings.
XdbfAchievementFiles ==
    {XdbfFile(BEBytes(XDBF_MAGIC, 4),
              <<StrTblSlot(XDBF_LANGUAGE_ENGLISH, "full", 0),
                StrTblSlot(XDBF_LANGUAGE_JAPANESE, ja, 100),
                XstcSlot("EN", 200), ImgSlot(XDBF_ID_TITLE, "ok", 300),
                ListSlot(XDBF_XACH_MAGIC, "pair", 500)>>) :
        ja \in {"full", "titleonly", "badmagic"}}

\* Containers embedded in an executable that have nothing to show: no
\* achievements, or an achievements resource that is not one.
XdbfBareFiles ==
    {XdbfFile(BEBytes(XDBF_MAGIC, 4), <<ListSlot(XDBF_XACH_MAGIC, k, 500)>>) :
        k \in {"none", "badmagic"}}

\* Entry tables of up to MaxLookupEntries entries whose namespaces and ids
\* collide in one field or in the byte order of one field.
MaxLookupEntries == 2
LookupNamespaces == {1, 256}
LookupIds == {1, 2}
LookupEntries == {Entry(ns, id, 0, 0) : ns \in LookupNamespaces, id \in LookupIds}
LookupTables ==
    UNION {[1 .. n -> LookupEntries] : n \in 0 .. MaxLookupEntries}
XdbfLookupFiles ==
    {[len |-> XdbfFileLen, magic |-> BEBytes(XDBF_MAGIC, 4),
      version |-> BEBytes(XDBF_VERSION, 4),
      entry_table_length |-> BEBytes(Len(t), 4),
      free_space_table_length |-> BEBytes(0, 4),
      entries |-> t, res |-> <<>>] : t \in LookupTables}

XdbfInvalidFiles == {XdbfFile(<<0, 0, 0, 0>>, <<>>)}

BnrComments ==
    {[gamename |-> "Game", company |-> "Co", gamename_full |-> "Game Full",
      company_full |-> "Caf<E9>", gamedesc |-> "Desc"],
     [gamename |-> "Game", company |-> "Co", gamename_full |-> "",
      company_full |-> "", gamedesc |-> ""],
     [gamename |-> "", company |-> "", gamename_full |-> "",
      company_full |-> "", gamedesc |-> ""]}

BnrFiles ==
    {[len |-> l, magic |-> BEBytes(mg, 4), commentsOK |-> c, bannerOK |-> b,
      banner |-> <<"RGB5A3", mg>>,
      comments |-> <<c0, c1, c1, c1, c1, c1>>] :
        l \in {sizeof_gcn_banner_bnr1_t - 1, sizeof_gcn_banner_bnr1_t,
               sizeof_gcn_banner_bnr2_t},
        mg \in {GCN_BANNER_MAGIC_BNR1, GCN_BANNER_MAGIC_BNR2},
        c \in BOOLEAN, b \in BOOLEAN, c0 \in BnrComments, c1 \in BnrComments}

SidFiles ==
    {[len |-> sizeof_SID_Header, magic |-> BEBytes(mg, 4), version |-> BEBytes(2, 2),
      name |-> nm, author |-> au, copyright |-> cr,
      loadAddress |-> BEBytes(0, 2), initAddress |-> BEBytes(4096, 2),
      playAddress |-> BEBytes(4099, 2), songs |-> BEBytes(3, 2),
      startSong |-> BEBytes(1, 2)] :
        mg \in {PSID_MAGIC, RSID_MAGIC, 0}, nm \in {"", "Tune"},
        au \in {"", "Caf<E9>"}, cr \in {"", "1988"}}

\* A metadata block as a file of the given byte order stores it.
Pvr3Store(swap, v) == IF swap THEN bswap(HostBytes(v, 4)) ELSE HostBytes(v, 4)
Pvr3Block(swap, fourCC, key, size, data) ==
    [fourCC |-> Pvr3Store(swap, fourCC), key |-> Pvr3Store(swap, key),
     size |-> Pvr3Store(swap, size), data |-> data]

Pvr3MetadataSizes == {0, 12, 14, 15, 27, 30, PVR3_METADATA_MAX, PVR3_METADATA_MAX + 1}

Pvr3Files ==
    {[len |-> sizeof_PowerVR3_Header + 200000,
      version |-> IF v = "bad" THEN <<0, 0, 0, 0>>
                  ELSE Pvr3Store(v = "swap", PVR3_VERSION_HOST),
      metadata_size |-> Pvr3Store(v = "swap", ms),
      metaOK |-> ok,
      blocks |-> IF lead
                 THEN <<Pvr3Block(v = "swap", fcc, 2, 3, <<9, 9, 9>>),
                        Pvr3Block(v = "swap", PVR3_VERSION_HOST, PVR3_META_ORIENTATION,
                                  3, <<x, y, 0>>)>>
                 ELSE <<Pvr3Block(v = "swap", PVR3_VERSION_HOST, PVR3_META_ORIENTATION,
                                  3, <<x, y, 0>>)>>] :
        v \in {"host", "swap", "bad"}, ms \in Pvr3MetadataSizes, ok \in BOOLEAN,
        lead \in BOOLEAN, fcc \in {PVR3_VERSION_HOST, 1}, x \in {0, 1}, y \in {0, 1}}

HandlerClasses == {"Xbox360_XDBF", "GameCubeBNR", "SID", "PowerVR3"}

\* What a handler is constructed on: the file, the language of the system
\* (an XDBF language id or a GameCube PAL language id) and, for a
\* container, whether it is the one embedded in an executable.
Input(f, lang, xex) == [file |-> f, sysLang |-> lang, xex |-> xex]

HandlerInputs(class) ==
    CASE class = "Xbox360_XDBF" ->
            {Input(f, l, FALSE) : f \in XdbfLanguageFiles,
                l \in {XDBF_LANGUAGE_ENGLISH, XDBF_LANGUAGE_JAPANESE,
                       XDBF_LANGUAGE_GERMAN}} \cup
            {Input(XdbfLanguageFile("full", ja, "none"), l, x) :
                ja \in {"none", "full"}, l \in {XDBF_LANGUAGE_UNKNOWN}, x \in BOOLEAN} \cup
            {Input(f, XDBF_LANGUAGE_ENGLISH, FALSE) : f \in XdbfFaultyFiles} \cup
            {Input(f, XDBF_LANGUAGE_ENGLISH, FALSE) : f \in XdbfLookupFiles} \cup
            {Input(f, XDBF_LANGUAGE_ENGLISH, TRUE) : f \in XdbfBareFiles} \cup
            {Input(f, XDBF_LANGUAGE_ENGLISH, FALSE) : f \in XdbfAchievementFiles} \cup
            {Input(f, XDBF_LANGUAGE_ENGLISH, x) : f \in XdbfInvalidFiles, x \in BOOLEAN}
      [] class = "GameCubeBNR" ->
            {Input(f, l, FALSE) : f \in BnrFiles, l \in {GCN_PAL_LANG_ENGLISH, 1}}
      [] class = "SID" -> {Input(f, 0, FALSE) : f \in SidFiles}
      [] class = "PowerVR3" -> {Input(f, 0, FALSE) : f \in Pvr3Files}

\* The private object once the constructor has returned; a PowerVR3 object
\* is constructed by the PowerVR3_ctor step.
HandlerConstruct(class, f, xex) ==
    CASE class = "Xbox360_XDBF" ->
            Xbox360_XDBF_Private(f, xex, TRUE, Min(f.len, sizeof_XDBF_Header),
                Min(f.len - sizeof_XDBF_Header,
                    FromBE(f.entry_table_length) * sizeof_XDBF_Entry))
      [] class = "GameCubeBNR" -> GameCubeBNR_Private(f, TRUE)
      [] class = "SID" -> SID_Private(f, TRUE)
      [] class = "PowerVR3" ->
            [constructed |-> FALSE, file |-> "nullptr", isValid |-> FALSE]

-----------------------------------------------------------------------------
(* The accessor calls made on a constructed handler.                       *)

ImageTypes == {"IMG_INT_ICON", "IMG_INT_BANNER"}

\* The image type a class has an internal image of.
SupportedImage(class) ==
    IF class = "Xbox360_XDBF" THEN "IMG_INT_ICON" ELSE "IMG_INT_BANNER"

\* What the first call of loadFieldData, of loadMetaData and of
\* loadInternalImage for the supported type produced.
NoFirst == [called |-> {}, fields |-> <<>>, metaData |-> nullptr, image |-> nullptr]

\* The objects a handler caches.
Caches(class, priv) ==
    CASE class = "Xbox360_XDBF" ->
            <<priv.strTbls, priv.map_images, priv.img_icon, priv.fields, priv.metaData>>
      [] class = "GameCubeBNR" -> <<priv.img_banner, priv.fields, priv.metaData>>
      [] class = "SID" -> <<priv.fields, priv.metaData>>
      [] OTHER -> <<>>

\* The record of a call: what it returned, the reads it issued, the buffer
\* sizes it allocated, whether it failed, whether what it asked for was
\* cached before, whether the accessor had been called before, and whether
\* it changed any cache.
Returned(r, op, key, failed, hit, again) ==
    /\ d' = r.d
    /\ lastCall' = [op |-> op, key |-> key, ret |-> r.ret, reads |-> r.reads,
                    allocs |-> r.allocs, failed |-> failed, hit |-> hit,
                    again |-> again,
                    cached |-> Caches(klass, r.d) # Caches(klass, d)]
    /\ UNCHANGED <<hostLE, laterVars, createVars, detectVars, klass, hFile, sysLang>>

FirstTime(key, what, value) ==
    first' = IF key \in first.called THEN first
             ELSE [first EXCEPT !.called = @ \cup {key}, ![what] = value]

LoadFieldData ==
    /\ klass \in {"Xbox360_XDBF", "GameCubeBNR", "SID"}
    /\ \E r \in {CASE klass = "Xbox360_XDBF" -> Xbox360_XDBF_loadFieldData(Begin(d))
                    [] klass = "GameCubeBNR" -> GameCubeBNR_loadFieldData(Begin(d))
                    [] klass = "SID" -> SID_loadFieldData(Begin(d))} :
          /\ Returned(r, "loadFieldData", "fields", r.ret < 0, FALSE,
                      "fields" \in first.called)
          /\ FirstTime("fields", "fields", r.d.fields)

LoadMetaData ==
    /\ klass \in {"GameCubeBNR", "SID"}
    /\ \E r \in {IF klass = "GameCubeBNR" THEN GameCubeBNR_loadMetaData(Begin(d))
                  ELSE SID_loadMetaData(Begin(d))} :
          /\ Returned(r, "loadMetaData", "metaData", r.ret < 0, FALSE,
                      "metaData" \in first.called)
          /\ FirstTime("metaData", "metaData", r.d.metaData)

LoadInternalImage ==
    /\ klass \in {"Xbox360_XDBF", "GameCubeBNR"}
    /\ \E imageType \in ImageTypes :
         \E r \in {IF klass = "Xbox360_XDBF"
                   THEN Xbox360_XDBF_loadInternalImage(Begin(d), imageType)
                   ELSE GameCubeBNR_loadInternalImage(Begin(d), imageType)} :
            /\ Returned(r, "loadInternalImage", imageType, r.ret.ret < 0, FALSE,
                        "image" \in first.called)
            /\ IF imageType = SupportedImage(klass)
               THEN FirstTime("image", "image", r.ret.pImage)
               ELSE UNCHANGED first

GetString ==
    /\ klass = "Xbox360_XDBF"
    /\ \E property \in {"Title", "Publisher"} :
         Returned(Xbox360_XDBF_getString(Begin(d), property), "getString", property,
                  FALSE, FALSE, FALSE)
    /\ UNCHANGED first

\* loadString, with the extent of the table buffer its search dereferenced.
LoadString ==
    /\ klass = "Xbox360_XDBF"
    /\ \E langID \in {XDBF_LANGUAGE_ENGLISH, XDBF_LANGUAGE_JAPANESE},
          string_id \in {XDBF_ID_TITLE, 1, 2} :
         \E r \in {loadString(Begin(d), langID, string_id)} :
         \E extent \in {IF r.d.strTbls[langID] = nullptr THEN 0
                        ELSE XstrSearchExtent(r.d.strTbls[langID], 1,
                                 sizeof_XDBF_XSTR_Header,
                                 cpu_to_be(HostBytes(string_id, 2)))} :
            Returned([r EXCEPT !.ret = [str |-> r.ret, extent |-> extent]],
                     "loadString", <<langID, string_id>>, r.d.strTbls[langID] = nullptr,
                     d.strTbls[langID] # nullptr, FALSE)
    /\ UNCHANGED first

LoadStringTable ==
    /\ klass = "Xbox360_XDBF"
    /\ \E langID \in {XDBF_LANGUAGE_UNKNOWN, XDBF_LANGUAGE_ENGLISH,
                      XDBF_LANGUAGE_JAPANESE} :
         \E r \in {loadStringTable(Begin(d), langID)} :
            Returned(r, "loadStringTable", langID, r.ret = nullptr,
                     d.strTbls[langID] # nullptr, FALSE)
    /\ UNCHANGED first

LoadImage ==
    /\ klass = "Xbox360_XDBF"
    /\ \E image_id \in {XDBF_ID_TITLE, XDBF_ID_TITLE + 1} :
         \E r \in {loadImage(Begin(d), image_id)} :
            Returned(r, "loadImage", image_id, r.ret = nullptr,
                     image_id \in DOMAIN d.map_images, FALSE)
    /\ UNCHANGED first

FindResource ==
    /\ klass = "Xbox360_XDBF"
    /\ \E namespace_id \in LookupNamespaces, resource_id \in LookupIds :
         Returned(With(Begin(d), findResource(d.entryTable, namespace_id, resource_id)),
                  "findResource", <<namespace_id, resource_id>>, FALSE, FALSE, FALSE)
    /\ UNCHANGED first

PowerVR3_ctor ==
    /\ klass = "PowerVR3"
    /\ ~d.constructed
    /\ \E r \in {PowerVR3_Private(hFile, TRUE)} :
          Returned(r, IF r.d.isValid THEN "loadPvr3Metadata" ELSE "PowerVR3",
                   "metadata", r.d.isValid /\ r.ret < 0, FALSE, FALSE)
    /\ UNCHANGED first

InitHandler ==
    /\ hostLE \in BOOLEAN
    /\ CreateIdle
    /\ DetectIdle
    /\ FieldsIdle
    /\ RatingIdle
    /\ OnceIdle
    /\ IndexIdle
    /\ ImageIdle
    /\ klass \in HandlerClasses
    /\ \E in \in HandlerInputs(klass) :
         /\ hFile = in.file
         /\ sysLang = in.sysLang
         /\ d = HandlerConstruct(klass, in.file, in.xex)
    /\ lastCall = NoCall
    /\ first = NoFirst

NextHandler ==
    \/ LoadFieldData
    \/ LoadMetaData
    \/ LoadInternalImage
    \/ GetString
    \/ LoadString
    \/ LoadStringTable
    \/ LoadImage
    \/ FindResource
    \/ PowerVR3_ctor

SpecHandler == InitHandler /\ [][NextHandler]_vars

-----------------------------------------------------------------------------
(* Properties of the accessors.                                            *)

\* C5: on a valid handler the field table, the metadata set and the image
\* of a type are, after any later call, the very objects with the very
\* contents the first load of them produced: a second load appends, removes
\* and changes nothing.
C5_LoadsAreIdempotent ==
    d.isValid =>
        /\ "fields" \in first.called => d.fields = first.fields
        /\ "metaData" \in first.called => d.metaData = first.metaData
        /\ lastCall.op = "loadInternalImage" =>
             lastCall.ret.pImage = IF lastCall.key = SupportedImage(klass)
                                   THEN first.image ELSE nullptr

C5_Witness ==
    /\ d.isValid
    /\ lastCall.op = "loadFieldData"
    /\ lastCall.again
    /\ Len(d.fields) >= 3
    /\ first.image # nullptr

\* C6: a loadStringTable or loadImage call for a key that is already cached
\* returns the cached object without reading the file, and no step removes,
\* replaces or modifies a cached string table or image.
CacheHitInv ==
    (klass = "Xbox360_XDBF" /\ lastCall.op \in {"loadStringTable", "loadImage"} /\
     lastCall.hit)
        => /\ lastCall.reads = 0
           /\ lastCall.allocs = {}
           /\ lastCall.ret = IF lastCall.op = "loadStringTable"
                             THEN d.strTbls[lastCall.key]
                             ELSE d.map_images[lastCall.key]

CacheKeptStep ==
    klass = "Xbox360_XDBF" =>
        /\ \A l \in Langs : d.strTbls[l] # nullptr => d'.strTbls[l] = d.strTbls[l]
        /\ \A id \in DOMAIN d.map_images :
             id \in DOMAIN d'.map_images /\ d'.map_images[id] = d.map_images[id]

C6_CachedForLife == [](CacheHitInv) /\ [][CacheKeptStep]_vars

C6_Witness ==
    /\ lastCall.op = "loadStringTable"
    /\ lastCall.hit
    /\ lastCall.ret # nullptr
    /\ XDBF_ID_TITLE \in DOMAIN d.map_images

\* C7: a failed load on a valid handler leaves the handler valid and its
\* file open and changes no cached string table, image, field table or
\* metadata set; a constructor whose metadata load failed still yields a
\* valid handler that holds its file.
FailedLoadStep ==
    (d.isValid /\ lastCall'.op # "none" /\ lastCall'.failed)
        => /\ d'.isValid
           /\ d'.file = d.file
           /\ Caches(klass, d') = Caches(klass, d)

FailedMetadataInv ==
    (lastCall.op = "loadPvr3Metadata" /\ lastCall.failed)
        => d.isValid /\ d.file = "open"

C7_FailureIsLocal == [](FailedMetadataInv) /\ [][FailedLoadStep]_vars

C7_Witness ==
    /\ klass = "Xbox360_XDBF"
    /\ d.isValid
    /\ lastCall.op = "loadImage"
    /\ lastCall.failed
    /\ lastCall.reads = 1
    /\ d.strTbls[XDBF_LANGUAGE_JAPANESE] # nullptr

\* The default-language marker of the container, UNKNOWN when it has none.
XstcDefault ==
    LET e == findResource(d.entryTable, XDBF_SPA_NAMESPACE_METADATA, XDBF_XSTC_MAGIC)
    IN IF e = 0 THEN XDBF_LANGUAGE_UNKNOWN
       ELSE LET off == FromBE(d.entryTable[e].offset)
            IN IF off \in DOMAIN hFile.res /\
                  FromBE(d.entryTable[e].length) = sizeof_XDBF_XSTC
               THEN FromBE(hFile.res[off].default_language)
               ELSE XDBF_LANGUAGE_UNKNOWN

LangsWithTable == {l \in Langs : d.strTblIndexes[l] >= 0}

FirstLangWithTable ==
    IF LangsWithTable = {} THEN XDBF_LANGUAGE_UNKNOWN
    ELSE CHOOSE l \in LangsWithTable : \A k \in LangsWithTable : l <= k

FallbackChain ==
    <<sysLang, XstcDefault, XDBF_LANGUAGE_ENGLISH, FirstLangWithTable>>

StringIn(langID, string_id) == loadString(Begin(d), langID, string_id).ret

RECURSIVE ChainLookup(_, _, _)
ChainLookup(chain, i, string_id) ==
    IF i > Len(chain) THEN ""
    ELSE IF StringIn(chain[i], string_id) # "" THEN StringIn(chain[i], string_id)
    ELSE ChainLookup(chain, i + 1, string_id)

\* C8: the string getString returns for an id is the one of the first
\* language in the chain system language, default-language marker, English,
\* first language with a string table, whose table has a non-empty string
\* for that id.
C8_FallbackChain ==
    (klass = "Xbox360_XDBF" /\ d.isValid /\ lastCall.op = "getString" /\
     lastCall.key = "Title")
        => lastCall.ret = ChainLookup(FallbackChain, 1, XDBF_ID_TITLE)

\* A container with a Japanese and an English table only, asked in German
\* for the title, which only the English table has.
GermanAskedOfJapaneseAndEnglish ==
    /\ klass = "Xbox360_XDBF"
    /\ d.isValid
    /\ sysLang = XDBF_LANGUAGE_GERMAN
    /\ LangsWithTable = {XDBF_LANGUAGE_ENGLISH, XDBF_LANGUAGE_JAPANESE}
    /\ StringIn(XDBF_LANGUAGE_JAPANESE, XDBF_ID_TITLE) = ""
    /\ StringIn(XDBF_LANGUAGE_ENGLISH, XDBF_ID_TITLE) = "Halo"
    /\ lastCall.op = "getString"
    /\ lastCall.key = "Title"

\* The comparison findResource is to make: both ids as integers.
MatchesAsIntegers(p, namespace_id, resource_id) ==
    FromBE(p.namespace_id) = namespace_id /\ FromBE(p.resource_id) = resource_id

FirstMatch(entryTable, namespace_id, resource_id) ==
    LET hits == {i \in 1 .. Len(entryTable) :
                   MatchesAsIntegers(entryTable[i], namespace_id, resource_id)}
    IN IF hits = {} THEN 0 ELSE CHOOSE i \in hits : \A j \in hits : i <= j

\* C9: findResource returns the first entry of the table whose namespace id
\* and resource id both equal the ones asked for, and none when no entry
\* has both, whatever entries share one of the two.
C9_FindResourceFirstMatch ==
    lastCall.op = "findResource"
        => lastCall.ret = FirstMatch(d.entryTable, lastCall.key[1], lastCall.key[2])

C9_Witness ==
    /\ lastCall.op = "findResource"
    /\ lastCall.key = <<1, 2>>
    /\ lastCall.ret = 2
    /\ d.entryTable = <<Entry(1, 1, 0, 0), Entry(1, 2, 0, 0)>>

C9_WitnessNone ==
    /\ lastCall.op = "findResource"
    /\ lastCall.key = <<1, 2>>
    /\ lastCall.ret = 0
    /\ d.entryTable = <<Entry(1, 1, 0, 0), Entry(256, 2, 0, 0)>>

\* The length the entry of a string table or of an image declares.
DeclaredStrTblSize(langID) ==
    IF langID \in Langs /\ d.strTblIndexes[langID] >= 0
    THEN FromBE(d.entryTable[d.strTblIndexes[langID] + 1].length)
    ELSE 0

DeclaredImageSize(image_id) ==
    LET e == findResource(d.entryTable, XDBF_SPA_NAMESPACE_IMAGE, image_id)
    IN IF e = 0 THEN 0 ELSE FromBE(d.entryTable[e].length)

\* C10: a load of a string table or image declared longer than 1 MiB, or of
\* texture metadata declared longer than 128 KiB, fails without allocating
\* a buffer, without reading the file and without caching anything; no call
\* ever allocates or caches more than 1 MiB for a resource.
C10_OversizeRejected ==
    /\ (klass = "Xbox360_XDBF" /\ d.isValid /\ lastCall.op = "loadStringTable" /\
        DeclaredStrTblSize(lastCall.key) > STR_TBL_MAX_SIZE)
           => /\ lastCall.ret = nullptr
              /\ lastCall.reads = 0
              /\ lastCall.allocs = {}
              /\ ~lastCall.cached
    /\ (klass = "Xbox360_XDBF" /\ d.isValid /\ lastCall.op = "loadImage" /\
        DeclaredImageSize(lastCall.key) > IMAGE_MAX_SIZE)
           => /\ lastCall.ret = nullptr
              /\ lastCall.reads = 0
              /\ lastCall.allocs = {}
              /\ ~lastCall.cached
    /\ (lastCall.op = "loadPvr3Metadata" /\ d.metadata_size > PVR3_METADATA_MAX)
           => /\ lastCall.ret < 0
              /\ lastCall.reads = 0
              /\ lastCall.allocs = {}
              /\ ~d.orientation_valid
    /\ (klass = "Xbox360_XDBF" /\ lastCall.op # "none")
           => /\ \A a \in lastCall.allocs : a <= STR_TBL_MAX_SIZE
              /\ \A l \in Langs :
                   d.strTbls[l] # nullptr => d.strTbls[l].size <= STR_TBL_MAX_SIZE

C10_Witness ==
    /\ klass = "Xbox360_XDBF"
    /\ d.isValid
    /\ lastCall.op = "loadStringTable"
    /\ DeclaredStrTblSize(lastCall.key) > STR_TBL_MAX_SIZE
    /\ DeclaredImageSize(XDBF_ID_TITLE) > IMAGE_MAX_SIZE

C10_WitnessMetadata ==
    /\ lastCall.op = "loadPvr3Metadata"
    /\ d.isByteswapNeeded
    /\ d.metadata_size > PVR3_METADATA_MAX

\* The entry of the icon in the entry table of the container, 0 for none.
IconEntry == findResource(d.entryTable, XDBF_SPA_NAMESPACE_IMAGE, XDBF_ID_TITLE)

\* What a request for an internal image of the container met.
IconRequestMet ==
    IF lastCall.key # "IMG_INT_ICON" THEN "not applicable"
    ELSE IF lastCall.ret.pImage # nullptr THEN "image"
    ELSE IF d.file = "nullptr" THEN "file not open"
    ELSE IF IconEntry = 0 THEN "resource absent"
    ELSE "resource unreadable"

\* C11: on a valid container handler the outcome of an image request tells
\* what the request met: -ENOENT is returned for an unsupported image type
\* only, -EBADF for a file that is not open only, and the outcome of an icon
\* that exists but cannot be read or decoded, -EIO, is never the outcome of
\* an icon that is absent from the entry table.
C11_OutcomesDistinct ==
    (klass = "Xbox360_XDBF" /\ d.isValid /\ lastCall.op = "loadInternalImage")
        => /\ lastCall.ret.ret = 0 <=> IconRequestMet = "image"
           /\ lastCall.ret.ret = -ENOENT <=> IconRequestMet = "not applicable"
           /\ lastCall.ret.ret = -EBADF <=> IconRequestMet = "file not open"
           /\ lastCall.ret.ret = -EIO <=> IconRequestMet = "resource unreadable"

\* An icon that exists but does not decode, and an icon that is absent.
IconUnreadableIsEIO ==
    /\ klass = "Xbox360_XDBF" /\ d.isValid /\ lastCall.op = "loadInternalImage"
    /\ IconRequestMet = "resource unreadable"
    /\ lastCall.ret.ret = -EIO

IconAbsentIsEIO ==
    /\ klass = "Xbox360_XDBF" /\ d.isValid /\ lastCall.op = "loadInternalImage"
    /\ IconRequestMet = "resource absent"
    /\ lastCall.ret.ret = -EIO

-----------------------------------------------------------------------------
(* Properties of the constructors.                                         *)

CtorStateInv ==
    dtCtor # NoCall =>
        \/ dtCtor.isValid /\ dtCtor.file = "open"
        \/ ~dtCtor.isValid /\ dtCtor.file = "nullptr"

CtorStateKeptStep == dtCtor # NoCall => dtCtor' = dtCtor

C12_WitnessValid ==
    /\ dtClass = "Nintendo3DS_SMDH"
    /\ dtCtor # NoCall
    /\ dtStatic # NoCall
    /\ dtCtor.isValid
    /\ dtCtor.file = "open"

\* The constructor got the file and read the whole header, which has the
\* XDBF magic and version.
XdbfHeaderAccepted ==
    /\ dtClass = "Xbox360_XDBF"
    /\ dtCtor # NoCall
    /\ dtCtor.read >= sizeof_XDBF_Header
    /\ dtFile.magic = BEBytes(XDBF_MAGIC, 4)
    /\ dtFile.version = BEBytes(XDBF_VERSION, 4)

\* The file holds the whole entry table its header declares.
EntryTableInFile ==
    dtFile.len >= sizeof_XDBF_Header + FromBE(dtFile.entry_table_length) * sizeof_XDBF_Entry

\* C18: a container with valid magic and version is Invalid when its
\* declared entry count is greater than 1,048,576, and Valid for every count
\* up to and including 1,048,576 whose entry table the file holds in full.
C18_RejectedAboveLimit ==
    XdbfHeaderAccepted =>
        IF FromBE(dtFile.entry_table_length) > 1048576 THEN ~dtCtor.isValid
        ELSE EntryTableInFile => dtCtor.isValid

\* The constructor rejects a count of XDBF_MAX_ENTRIES or more without
\* reading the entry table, and accepts every smaller count whose entry
\* table the file holds in full.
XdbfCountLimitInCode ==
    XdbfHeaderAccepted =>
        IF FromBE(dtFile.entry_table_length) >= XDBF_MAX_ENTRIES
        THEN ~dtCtor.isValid /\ dtCtor.read = sizeof_XDBF_Header
        ELSE EntryTableInFile => dtCtor.isValid

\* A container of 1,048,575 entries was read in full and is Valid.
XdbfLargestAccepted ==
    /\ XdbfHeaderAccepted
    /\ FromBE(dtFile.entry_table_length) = XDBF_MAX_ENTRIES - 1
    /\ dtCtor.isValid
    /\ dtCtor.read = 18874374

\* The only container the two limits treat differently.
XdbfLimitDiffers ==
    C18_RejectedAboveLimit \/
    (FromBE(dtFile.entry_table_length) = XDBF_MAX_ENTRIES /\ EntryTableInFile)

-----------------------------------------------------------------------------
(* RomFields (src/src/librpbase/RomFields.cpp): the field table a handler  *)
(* fills in, and FieldsOutput of rpcli, which prints it.                   *)
(*                                                                         *)
(* Member functions are operators on p = RomFieldsPrivate and return       *)
(* [p, ret, aborted]: the object afterwards, the value returned, and       *)
(* whether an assert() ended the process.  A null const char* is the       *)
(* string "nullptr", any other null pointer is nullptr; flag words are     *)
(* sets of flag names.                                                     *)

RFT_STRING == "RFT_STRING"
RFT_BITFIELD == "RFT_BITFIELD"
RFT_LISTDATA == "RFT_LISTDATA"
RFT_DATETIME == "RFT_DATETIME"
RFT_AGE_RATINGS == "RFT_AGE_RATINGS"
RFT_DIMENSIONS == "RFT_DIMENSIONS"
TabOffset_Ignore == -1
TabOffset_AddTabs == -2

Returns(p, ret) == [p |-> p, ret |-> ret, aborted |-> FALSE]

\* assert(cond) has failed: abort() unless the build defines NDEBUG, in
\* which case the `if` that follows the assert returns ret.
AssertFailed(p, ret) == [p |-> p, ret |-> ret, aborted |-> ~NDEBUG]

\* std::vector<string>::resize(n) on a shorter vector.
RECURSIVE resize(_, _)
resize(tabNames, n) ==
    IF Len(tabNames) >= n THEN tabNames ELSE resize(Append(tabNames, ""), n)

setTabIndex(p, tabIdx) ==
    Returns([p EXCEPT !.tabIdx = tabIdx % 256,
                      !.tabNames = IF Len(@) < tabIdx + 1 THEN resize(@, tabIdx + 1)
                                   ELSE @], 0)

setTabName(p, tabIdx, name) ==
    IF tabIdx < 0 THEN AssertFailed(p, 0)
    ELSE Returns([p EXCEPT !.tabNames =
                     [resize(@, tabIdx + 1) EXCEPT ![tabIdx + 1] =
                         IF name = "nullptr" THEN "" ELSE name]], 0)

addTab(p, name) ==
    Returns([p EXCEPT !.tabNames = Append(@, name), !.tabIdx = Len(p.tabNames) % 256],
            Len(p.tabNames) % 256)

\* idx = d->fields.size(); d->fields.resize(idx+1); the field is filled in;
\* return idx.
PushField(p, field) == Returns([p EXCEPT !.fields = Append(@, field)], Len(p.fields))

trimEnd(str) == IF str = "x " THEN "x" ELSE str

\* if (!name) return -1;     (every add-field helper starts with it)
NameMissing(name) == name = "nullptr"

addField_string(p, name, str, flags) ==
    IF NameMissing(name) THEN AssertFailed(p, -1)
    ELSE PushField(p, [name |-> name, type |-> RFT_STRING, tabIdx |-> p.tabIdx,
                       isValid |-> name # "nullptr", flags |-> flags,
                       data |-> IF str # "nullptr" /\ "STRF_TRIM_END" \in flags
                                THEN trimEnd(str) ELSE str])

addField_bitfield_namesUnchecked(p, name, bit_names, elemsPerRow, bitfield) ==
    IF NameMissing(name) THEN AssertFailed(p, -1)
    ELSE PushField(p, [name |-> name, type |-> RFT_BITFIELD, tabIdx |-> p.tabIdx,
                       isValid |-> TRUE, flags |-> {},
                       data |-> [elemsPerRow |-> elemsPerRow, names |-> bit_names,
                                 bitfield |-> bitfield]])
addField_bitfield(p, name, bit_names, elemsPerRow, bitfield) ==
    IF NameMissing(name) \/ bit_names = nullptr THEN AssertFailed(p, -1)
    ELSE PushField(p, [name |-> name, type |-> RFT_BITFIELD, tabIdx |-> p.tabIdx,
                       isValid |-> TRUE, flags |-> {},
                       data |-> [elemsPerRow |-> elemsPerRow, names |-> bit_names,
                                 bitfield |-> bitfield]])

ListDataBoth == {"RFT_LISTDATA_CHECKBOXES", "RFT_LISTDATA_ICONS"}

\* params is an AFLD_PARAMS, or nullptr.
addField_listData(p, name, params) ==
    IF NameMissing(name) \/ params = nullptr THEN AssertFailed(p, -1)
    ELSE IF ListDataBoth \subseteq params.flags /\ ~NDEBUG THEN AssertFailed(p, -1)
    ELSE IF params.rows_visible < 0 /\ ~NDEBUG THEN AssertFailed(p, -1)
    ELSE LET flags == IF ListDataBoth \subseteq params.flags
                      THEN params.flags \ ListDataBoth ELSE params.flags
             icons == "RFT_LISTDATA_ICONS" \in flags /\
                      "RFT_LISTDATA_CHECKBOXES" \notin flags
         IN
    IF icons /\ params.mxd = nullptr /\ ~NDEBUG THEN AssertFailed(p, -1)
    ELSE PushField(p, [name |-> name, type |-> RFT_LISTDATA, tabIdx |-> p.tabIdx,
                       isValid |-> TRUE,
                       flags |-> IF icons /\ params.mxd = nullptr
                                 THEN params.flags \ {"RFT_LISTDATA_ICONS"}
                                 ELSE params.flags,
                       data |-> [rows_visible |-> IF params.rows_visible >= 0
                                                  THEN params.rows_visible ELSE 0,
                                 names |-> params.headers,
                                 data |-> params.list_data,
                                 mxd |-> IF flags \cap ListDataBoth # {}
                                         THEN params.mxd ELSE nullptr]])

addField_dateTime(p, name, date_time, flags) ==
    IF NameMissing(name) THEN AssertFailed(p, -1)
    ELSE PushField(p, [name |-> name, type |-> RFT_DATETIME, tabIdx |-> p.tabIdx,
                       isValid |-> TRUE, flags |-> flags, data |-> date_time])

addField_ageRatings(p, name, age_ratings) ==
    IF NameMissing(name) THEN AssertFailed(p, -1)
    ELSE PushField(p, [name |-> name, type |-> RFT_AGE_RATINGS, tabIdx |-> p.tabIdx,
                       isValid |-> TRUE, flags |-> {}, data |-> age_ratings])

addField_dimensions(p, name, dimX, dimY, dimZ) ==
    IF NameMissing(name) THEN AssertFailed(p, -1)
    ELSE PushField(p, [name |-> name, type |-> RFT_DIMENSIONS, tabIdx |-> p.tabIdx,
                       isValid |-> TRUE, flags |-> {}, data |-> <<dimX, dimY, dimZ>>])

\* The copy loop of addFields_romFields: every field of `other`, with its
\* payload, and with its tab index moved by tabOffset or replaced.
CopyFields(src, tabOffset, tabIdx) ==
    [i \in 1..Len(src) |->
        [src[i] EXCEPT !.tabIdx = IF tabOffset # TabOffset_Ignore
                                  THEN src[i].tabIdx + tabOffset ELSE tabIdx]]

\* other is a RomFieldsPrivate, or nullptr.
addFields_romFields(p, other, tabOffset) ==
    IF other = nullptr THEN AssertFailed(p, -1)
    ELSE LET addTabs == tabOffset = TabOffset_AddTabs
             tabNames == IF addTabs THEN p.tabNames \o other.tabNames ELSE p.tabNames
             offset == IF addTabs THEN p.tabIdx + 1 ELSE tabOffset
             tabIdx == IF addTabs THEN (Len(tabNames) - 1) % 256 ELSE p.tabIdx
             fields == p.fields \o CopyFields(other.fields, offset, tabIdx)
         IN Returns([fields |-> fields, tabIdx |-> tabIdx, tabNames |-> tabNames],
                    Len(fields) - 1)

tabCount(p) == IF Len(p.tabNames) > 0 THEN Len(p.tabNames) ELSE 1

\* nullptr is returned if no name is set or the name is empty.
tabName(p, tabIdx) ==
    IF tabIdx < 0 THEN AssertFailed(p, "nullptr")
    ELSE IF tabIdx >= Len(p.tabNames) THEN Returns(p, "nullptr")
    ELSE IF p.tabNames[tabIdx + 1] = "" THEN Returns(p, "nullptr")
    ELSE Returns(p, p.tabNames[tabIdx + 1])

\* The loop of operator<<(ostream&, FieldsOutput): acc is [tabIdx, tabs,
\* aborted], the tab last printed, the tab headers printed so far, and
\* whether assert(tabIdx + 1 == romField->tabIdx) has failed.  FieldsOutput
\* returns the number of tab headers printed.
RECURSIVE FieldsOutputLoop(_, _, _)
FieldsOutputLoop(p, i, acc) ==
    IF i > Len(p.fields) \/ acc.aborted THEN acc
    ELSE LET romField == p.fields[i] IN
         IF ~romField.isValid THEN FieldsOutputLoop(p, i + 1, acc)
         ELSE IF tabCount(p) > 1 /\ acc.tabIdx # romField.tabIdx
         THEN IF acc.tabIdx + 1 # romField.tabIdx /\ ~NDEBUG
              THEN [acc EXCEPT !.aborted = TRUE]
              ELSE FieldsOutputLoop(p, i + 1,
                       [acc EXCEPT !.tabIdx = romField.tabIdx,
                                   !.tabs = Append(@, romField.tabIdx)])
         ELSE FieldsOutputLoop(p, i + 1, acc)

FieldsOutput(p) ==
    LET out == FieldsOutputLoop(p, 1, [tabIdx |-> -1, tabs |-> <<>>, aborted |-> FALSE])
    IN [p |-> p, ret |-> Len(out.tabs), aborted |-> out.aborted]

-----------------------------------------------------------------------------
(* Calls on one RomFields object, in any order.                            *)

MaxFields == 2
MaxTabs == 2

FieldNames == {"nullptr", "N"}
\* A parameter block that asks for icons and has no icon vector.
ListParams ==
    {[flags |-> {"RFT_LISTDATA_ICONS"}, rows_visible |-> 0, headers |-> [v |-> <<"H">>],
      list_data |-> [v |-> <<<<"c">>>>], mxd |-> nullptr]}

AddFieldOps == {"addField_string", "addField_bitfield", "addField_listData",
                "addField_dateTime", "addField_ageRatings", "addField_dimensions"}

NewRomFields == [fields |-> <<>>, tabIdx |-> 0, tabNames |-> <<>>]

\* The RomFields objects handed to addFields_romFields: ones a handler
\* builds with the calls above.
OtherRomFields ==
    {NewRomFields,
     addField_dimensions(NewRomFields, "N", 1, 2, 0).p,
     addField_dimensions(addTab(NewRomFields, "A").p, "N", 1, 2, 0).p,
     addField_dateTime(addTab(addField_dimensions(addTab(NewRomFields, "A").p,
                                                  "N", 1, 2, 0).p, "B").p,
                       "N", 0, {}).p}

Running == IF rfCall.op = "none" THEN TRUE ELSE ~rfCall.aborted

\* rfCall.before is the object before the call, kept for the add-field
\* helpers and, with the arguments, for addFields_romFields.
Called(op, bad, r) ==
    /\ rfd' = r.p
    /\ rfCall' = [op |-> op, bad |-> bad, ret |-> r.ret, aborted |-> r.aborted,
                  before |-> IF op \in AddFieldOps THEN rfd ELSE NewRomFields]
    /\ UNCHANGED <<hostLE, NDEBUG, createVars, detectVars, handlerVars, ratingVars, onceVars, indexVars, imageVars>>

SetTabIndex ==
    /\ Running
    /\ \E tabIdx \in 0 .. (MaxTabs - 1) :
         Called("setTabIndex", FALSE, setTabIndex(rfd, tabIdx))

SetTabName ==
    /\ Running
    /\ \E tabIdx \in -1 .. (MaxTabs - 1) :
       \E name \in IF tabIdx = 0 THEN {"nullptr", ""} ELSE {""} :
         Called("setTabName", tabIdx < 0, setTabName(rfd, tabIdx, name))

AddTab ==
    /\ Running
    /\ Len(rfd.tabNames) < MaxTabs
    /\ Called("addTab", FALSE, addTab(rfd, ""))

\* bad: one of the helper's required pointers is null.
AddField ==
    /\ Running
    /\ Len(rfd.fields) < MaxFields
    /\ \E n \in FieldNames :
         \/ Called("addField_string", n = "nullptr",
                   addField_string(rfd, n, "x ", {"STRF_TRIM_END"}))
         \/ \E b \in {nullptr, [v |-> <<"b0", "b1">>]} :
              Called("addField_bitfield", n = "nullptr" \/ b = nullptr,
                     addField_bitfield(rfd, n, b, 4, 1))
         \/ \E lp \in ListParams \cup {nullptr} :
              Called("addField_listData", n = "nullptr" \/ lp = nullptr,
                     addField_listData(rfd, n, lp))
         \/ Called("addField_dateTime", n = "nullptr", addField_dateTime(rfd, n, 0, {}))
         \/ Called("addField_ageRatings", n = "nullptr",
                   addField_ageRatings(rfd, n, <<0, 128>>))
         \/ Called("addField_dimensions", n = "nullptr",
                   addField_dimensions(rfd, n, 1, 2, 0))

AddFieldsRomFields ==
    /\ Running
    /\ \E other \in OtherRomFields \cup {nullptr},
          tabOffset \in {TabOffset_AddTabs, TabOffset_Ignore, 0, 1} :
         /\ IF other = nullptr THEN TRUE
            ELSE /\ Len(rfd.fields) + Len(other.fields) <= MaxFields
                 /\ Len(rfd.tabNames) + Len(other.tabNames) <= MaxTabs
         /\ \E r \in {addFields_romFields(rfd, other, tabOffset)} :
              /\ rfd' = r.p
              /\ rfCall' = [op |-> "addFields_romFields", bad |-> other = nullptr,
                            ret |-> r.ret, aborted |-> r.aborted, before |-> rfd,
                            other |-> other, tabOffset |-> tabOffset]
    /\ UNCHANGED <<hostLE, NDEBUG, createVars, detectVars, handlerVars, ratingVars,
                   onceVars, indexVars, imageVars>>

PrintFields ==
    /\ Running
    /\ Called("FieldsOutput", FALSE, FieldsOutput(rfd))

InitFields ==
    /\ hostLE = TRUE
    /\ CreateIdle
    /\ DetectIdle
    /\ HandlerIdle
    /\ RatingIdle
    /\ OnceIdle
    /\ IndexIdle
    /\ ImageIdle
    /\ NDEBUG \in BOOLEAN
    /\ rfd = NewRomFields
    /\ rfCall = NoCall

NextFields ==
    \/ SetTabIndex
    \/ SetTabName
    \/ AddTab
    \/ AddField
    \/ AddFieldsRomFields
    \/ PrintFields

SpecFields == InitFields /\ [][NextFields]_vars

(* Properties of the add-field helpers and of the tab indexes.             *)

LastField == rfd.fields[Len(rfd.fields)]

\* C13 as worded: a call of an add-field helper (string, bitfield, list
\* data, date/time, age ratings, dimensions) appends exactly one field,
\* in the current tab, and returns its index, which is the field count
\* before the call; the fields that were there are unchanged; and when a
\* required input is bad (a null name, name list or parameter block) the
\* field appended is marked invalid.
C13_AddFieldAppendsOne ==
    (rfCall.op \in AddFieldOps /\ ~rfCall.aborted)
        => /\ Len(rfd.fields) = Len(rfCall.before.fields) + 1
           /\ rfCall.ret = Len(rfCall.before.fields)
           /\ SubSeq(rfd.fields, 1, Len(rfCall.before.fields)) = rfCall.before.fields
           /\ LastField.tabIdx = rfCall.before.tabIdx
           /\ rfCall.bad => ~LastField.isValid

\* C13: a call of an add-field helper (string, bitfield, list data,
\* date/time, age ratings, dimensions) whose required pointers are not null
\* appends exactly one valid field, in the current tab, and returns its
\* index, which is the field count before the call, and the fields that were
\* there are unchanged (addField_listData alone can stop at an assert() on
\* its flags, row count or icon vector instead); a call with a null
\* required pointer appends nothing, changes nothing and returns -1, or
\* stops at its assert() in a build that has assertions.
C13_AddFieldContract ==
    rfCall.op \in AddFieldOps =>
        IF rfCall.bad
        THEN /\ rfd = rfCall.before
             /\ rfCall.aborted = ~NDEBUG
             /\ rfCall.ret = -1
        ELSE IF rfCall.aborted THEN rfCall.op = "addField_listData" /\ ~NDEBUG
        ELSE /\ Len(rfd.fields) = Len(rfCall.before.fields) + 1
             /\ rfCall.ret = Len(rfCall.before.fields)
             /\ SubSeq(rfd.fields, 1, Len(rfCall.before.fields)) = rfCall.before.fields
             /\ LastField.tabIdx = rfCall.before.tabIdx
             /\ LastField.isValid

\* addField_bitfield was given a null name list after a field had been
\* added, and returned.
C13_Witness ==
    /\ rfCall.op = "addField_bitfield" /\ rfCall.bad /\ ~rfCall.aborted
    /\ rfCall.before.fields # <<>>
    /\ rfd = rfCall.before
    /\ rfCall.ret = -1

\* A helper with good inputs appended the second field.
GoodFieldAppended ==
    /\ rfCall.op \in AddFieldOps /\ ~rfCall.bad /\ ~rfCall.aborted
    /\ Len(rfd.fields) = 2

\* C14: the tab indexes of the fields, in the order the fields were
\* appended, start at 0 and each equals the one before it or is one
\* greater, whatever calls of setTabIndex, addTab, setTabName, the
\* add-field helpers and addFields_romFields were made.
C14_TabIndexesConsecutive ==
    rfd.fields # <<>> =>
        /\ rfd.fields[1].tabIdx = 0
        /\ \A i \in 2..Len(rfd.fields) :
             rfd.fields[i].tabIdx - rfd.fields[i - 1].tabIdx \in {0, 1}

\* A field was added to tab 1 of an object that had no field.
FirstFieldInLaterTab ==
    /\ rfCall.op \in AddFieldOps /\ ~rfCall.bad /\ ~rfCall.aborted
    /\ rfCall.before.fields = <<>>
    /\ rfd.fields[1].tabIdx = 1

\* FieldsOutput relies on it: assert(tabIdx + 1 == romField->tabIdx).
FieldsOutputAsserts ==
    (rfCall.op = "FieldsOutput" /\ rfCall.aborted) => ~C14_TabIndexesConsecutive

-----------------------------------------------------------------------------
(* Age ratings: the rating bytes of a Nintendo3DS_SMDH header              *)
(* (Nintendo3DS_SMDH::loadFieldData) and RomFields::ageRatingDecode /      *)
(* ageRatingsDecode.                                                       *)
(*                                                                         *)
(* A uint16_t rating is [flags, age]: the AGEBF_* flags set in it and the  *)
(* bits under AGEBF_MIN_AGE_MASK.  A string the code builds with += is the *)
(* sequence of the pieces appended.                                        *)

AGE_JAPAN == 0
AGE_USA == 1
AGE_AUSTRALIA == 8
AGE_MAX == 16               \* age_ratings_t is an array of 16 ratings
valid_ratings == 2011       \* 0x7DB

\* x & mask for a mask of one bit, and for the mask 0x1F.
BitSet(x, bit) == (x \div bit) % 2 = 1
NoFlagsRating == [flags |-> {}, age |-> 0]

\* C_(ctx, msgid): the message itself when no translation is bound.
C_(msgctxt, msgid) == msgid

ageRatingAbbrev(country) ==
    IF country < 0 \/ country >= AGE_MAX THEN "nullptr"
    ELSE LET abbrev == <<"CERO", "ESRB", "", "USK", "PEGI", "MEKU", "PEGI-PT", "BBFC",
                         "ACB", "GRB", "CGSRR", "", "", "", "", "">>[country + 1]
         IN IF abbrev # "" THEN abbrev ELSE "nullptr"

\* The switch on the country and the minimum age: "nullptr" for no label.
AgeLabel(country, age) ==
    IF country = AGE_JAPAN
    THEN CASE age = 0 -> "A" [] age = 12 -> "B" [] age = 15 -> "C"
           [] age = 17 -> "D" [] age = 18 -> "Z" [] OTHER -> "nullptr"
    ELSE IF country = AGE_USA
    THEN CASE age = 3 -> "eC" [] age = 6 -> "E" [] age = 10 -> "E10+"
           [] age = 13 -> "T" [] age = 17 -> "M" [] age = 18 -> "AO" [] OTHER -> "nullptr"
    ELSE IF country = AGE_AUSTRALIA
    THEN CASE age = 0 -> "G" [] age = 7 -> "PG" [] age = 14 -> "M"
           [] age = 15 -> "MA15+" [] age = 18 -> "R18+" [] OTHER -> "nullptr"
    ELSE "nullptr"

ageRatingDecode(country, rating) ==
    IF "AGEBF_ACTIVE" \notin rating.flags THEN ""
    ELSE LET s_rating ==
                 IF "AGEBF_PROHIBITED" \in rating.flags THEN C_("RomFields|AgeRating", "No")
                 ELSE IF "AGEBF_PENDING" \in rating.flags THEN "RP"
                 ELSE IF "AGEBF_NO_RESTRICTION" \in rating.flags
                 THEN C_("RomFields|AgeRating", "All")
                 ELSE AgeLabel(country, rating.age)
             str == IF s_rating # "nullptr" THEN s_rating ELSE ToString(rating.age)
         IN IF "AGEBF_ONLINE_PLAY" \in rating.flags THEN str \o "\\xC2\\xB0" ELSE str

\* The loop of ageRatingsDecode from slot i on; str is the pieces appended
\* so far.
RECURSIVE AgeRatingsLoop(_, _, _, _, _)
AgeRatingsLoop(age_ratings, newlines, i, ratings_count, str) ==
    IF i >= Len(age_ratings) THEN [str |-> str, ratings_count |-> ratings_count]
    ELSE LET rating == age_ratings[i + 1]
             abbrev == ageRatingAbbrev(i)
             sep == IF ratings_count = 0 THEN <<>>
                    ELSE IF newlines /\ ratings_count % 4 = 0 THEN <<",\n">>
                    ELSE <<", ">>
         IN IF "AGEBF_ACTIVE" \notin rating.flags
            THEN AgeRatingsLoop(age_ratings, newlines, i + 1, ratings_count, str)
            ELSE AgeRatingsLoop(age_ratings, newlines, i + 1, ratings_count + 1,
                     str \o sep \o
                     <<IF abbrev # "nullptr" THEN abbrev ELSE ToString(i), "=",
                       ageRatingDecode(i, rating)>>)

ageRatingsDecode(age_ratings, newlines) ==
    LET out == AgeRatingsLoop(age_ratings, newlines, 0, 0, <<>>)
    IN IF out.ratings_count = 0 THEN <<C_("RomFields|AgeRating", "None")>> ELSE out.str

\* One step of the loop of Nintendo3DS_SMDH::loadFieldData: age_ratings[i]
\* for the rating byte of slot i.
N3dsRating_activeIgnored(i, n3ds_rating) ==
    IF ~BitSet(valid_ratings, 2^i) THEN NoFlagsRating
    ELSE IF BitSet(n3ds_rating, 64)
    THEN [flags |-> {"AGEBF_ACTIVE", "AGEBF_PENDING"}, age |-> 0]
    ELSE IF BitSet(n3ds_rating, 32)
    THEN [flags |-> {"AGEBF_ACTIVE", "AGEBF_NO_RESTRICTION"}, age |-> 0]
    ELSE [flags |-> {"AGEBF_ACTIVE"}, age |-> n3ds_rating % 32]
N3dsRating(i, n3ds_rating) ==
    IF ~BitSet(valid_ratings, 2^i) THEN NoFlagsRating
    ELSE IF ~BitSet(n3ds_rating, 128) THEN NoFlagsRating
    ELSE IF BitSet(n3ds_rating, 64)
    THEN [flags |-> {"AGEBF_ACTIVE", "AGEBF_PENDING"}, age |-> 0]
    ELSE IF BitSet(n3ds_rating, 32)
    THEN [flags |-> {"AGEBF_ACTIVE", "AGEBF_NO_RESTRICTION"}, age |-> 0]
    ELSE [flags |-> {"AGEBF_ACTIVE"}, age |-> n3ds_rating % 32]

N3dsAgeRatings(ratings) == [i \in 1..AGE_MAX |-> N3dsRating(i - 1, ratings[i])]

\* The rating bytes of the headers tried: any byte in any one slot, the
\* other slots unused or holding a few ratings of their own.
RatingBackgrounds ==
    {[i \in 1..AGE_MAX |-> 0],
     [i \in 1..AGE_MAX |-> CASE i = 1 -> 140 [] i = 4 -> 134 [] i = 5 -> 192
                             [] i = 8 -> 160 [] i = 10 -> 146 [] OTHER -> 0]}
RatingInputs ==
    {[bg EXCEPT ![c + 1] = b] : bg \in RatingBackgrounds, c \in 0..(AGE_MAX - 1),
                                b \in 0..255}

LoadAgeRatings ==
    /\ arField.op = "none"
    /\ arField' = [op |-> "loadFieldData", age_ratings |-> N3dsAgeRatings(arRaw)]
    /\ UNCHANGED <<hostLE, createVars, detectVars, handlerVars, fieldsVars, onceVars, indexVars, imageVars, arRaw, arText>>

\* rpcli and the UI frontends print the field with both decoders.
DecodeAgeRatings ==
    /\ arField.op # "none"
    /\ arText.op = "none"
    /\ \E newlines \in BOOLEAN :
         arText' = [op |-> "ageRatingsDecode", newlines |-> newlines,
                    decoded |-> [i \in 1..AGE_MAX |->
                                    ageRatingDecode(i - 1, arField.age_ratings[i])],
                    summary |-> ageRatingsDecode(arField.age_ratings, newlines)]
    /\ UNCHANGED <<hostLE, createVars, detectVars, handlerVars, fieldsVars, onceVars, indexVars, imageVars, arRaw, arField>>

InitRatings ==
    /\ hostLE = TRUE
    /\ CreateIdle
    /\ DetectIdle
    /\ HandlerIdle
    /\ FieldsIdle
    /\ OnceIdle
    /\ IndexIdle
    /\ ImageIdle
    /\ arRaw \in RatingInputs
    /\ arField = NoCall
    /\ arText = NoCall

NextRatings ==
    \/ LoadAgeRatings
    \/ DecodeAgeRatings

SpecRatings == InitRatings /\ [][NextRatings]_vars

(* Properties of the age rating decoders.                                  *)

\* The rating authorities the SMDH header has a byte for.
SupportedAuthorities == {0, 1, 3, 4, 6, 7, 8, 9, 10}

\* The labels of the ESRB.
UsaLabels == [age \in {3, 6, 10, 13, 17, 18} |->
                 CASE age = 3 -> "eC" [] age = 6 -> "E" [] age = 10 -> "E10+"
                   [] age = 13 -> "T" [] age = 17 -> "M" [] age = 18 -> "AO"]

\* The summary has an entry for slot i.
InSummary(i) ==
    \E k \in 1..Len(arText.summary) :
        /\ arText.summary[k] = ageRatingAbbrev(i)
        /\ k < Len(arText.summary)
        /\ arText.summary[k + 1] = "="

RatingAllAndInactive ==
    /\ arText.op # "none"
    /\ arRaw[AGE_USA + 1] = 160
    /\ arText.decoded[AGE_USA + 1] = "All"
    /\ arRaw[1] = 0
    /\ arText.decoded[1] = "" /\ ~InSummary(AGE_JAPAN)

-----------------------------------------------------------------------------
(* The one-time initialized lists of RomDataFactory:                       *)
(* supportedFileExtensions() and supportedMimeTypes() called from several  *)
(* threads.  pthread_once lets the first caller run the initializer and    *)
(* holds every other caller until it has returned.  An initializer runs in *)
(* steps of one catalogue table each, so a list under construction is a    *)
(* state of its own.                                                       *)

NumThreads == 2
MaxCalls == 2
Threads == 1..NumThreads
Lists == {"exts", "mimeTypes"}

\* The classes whose lists are among the sources at hand.  The list of any
\* other class is one entry that only this class has, and ".bin" or
\* "application/octet-stream" as well when catalogShared.
Class_supportedFileExtensions(sys) ==
    CASE sys = "Nintendo3DS_SMDH" -> <<".smdh">>
      [] sys = "GameCubeBNR" -> <<".bnr">>
      [] sys = "SID" -> <<".sid", ".psid">>
      [] sys = "Xbox360_XDBF" -> <<".xdbf", ".spa">>
      [] OTHER -> IF catalogShared THEN <<"." \o sys, ".bin">> ELSE <<"." \o sys>>

Class_supportedMimeTypes(sys) ==
    CASE sys = "Nintendo3DS_SMDH" -> <<"application/x-nintendo-3ds-smdh">>
      [] sys = "GameCubeBNR" -> <<"application/x-gamecube-bnr">>
      [] sys = "SID" -> <<"audio/prs.sid">>
      [] OTHER -> IF catalogShared THEN <<"application/x-" \o sys, "application/octet-stream">>
                  ELSE <<"application/x-" \o sys>>

\* The table a stage of an initializer walks.
StageTable(stage) ==
    CASE stage = "magic" -> romDataFns_magic
      [] stage = "header" -> romDataFns_header
      [] stage = "footer" -> romDataFns_footer

\* iter != map_exts.end()
ExtKnown_never(map_exts, ext) == FALSE
ExtKnown(map_exts, ext) == ext \in DOMAIN map_exts

\* The inner loop of init_supportedFileExtensions for one descriptor; acc is
\* [vec, map]: vec_exts and map_exts.
RECURSIVE ExtsOfRow(_, _, _)
ExtsOfRow(acc, sys_exts, attrs) ==
    IF sys_exts = <<>> THEN acc
    ELSE Then([a \in {IF ExtKnown(acc.map, Head(sys_exts))
                       THEN [acc EXCEPT !.map[Head(sys_exts)] = @ \cup attrs]
                       ELSE [vec |-> Append(acc.vec,
                                            [ext |-> Head(sys_exts), attrs |-> attrs]),
                             map |-> acc.map @@ (Head(sys_exts) :> attrs)]} |->
            ExtsOfRow(a, Tail(sys_exts), attrs)])

RECURSIVE ExtsOfTable(_, _)
ExtsOfTable(acc, tbl) ==
    IF tbl = <<>> THEN acc
    ELSE Then([a \in {ExtsOfRow(acc, Class_supportedFileExtensions(Head(tbl).sys),
                                 Head(tbl).attrs)} |->
            ExtsOfTable(a, Tail(tbl))])

\* iter->attrs = map_exts[iter->ext];
ExtsAttrsPass(acc) ==
    [acc EXCEPT !.vec = [i \in 1..Len(acc.vec) |->
                            [acc.vec[i] EXCEPT !.attrs = acc.map[acc.vec[i].ext]]]]

\* iter == set_mimeTypes.end()
MimeTypeNew(set_mimeTypes, mimeType) == mimeType \notin set_mimeTypes

\* One of the three loops of init_supportedMimeTypes; acc is [vec, set].
RECURSIVE MimeTypesOfRow(_, _)
MimeTypesOfRow(acc, sys_mimeTypes) ==
    IF sys_mimeTypes = <<>> THEN acc
    ELSE Then([a \in {IF MimeTypeNew(acc.set, Head(sys_mimeTypes))
                       THEN [vec |-> Append(acc.vec, Head(sys_mimeTypes)),
                             set |-> acc.set \cup {Head(sys_mimeTypes)}]
                       ELSE acc} |->
            MimeTypesOfRow(a, Tail(sys_mimeTypes))])

RECURSIVE MimeTypesOfTable(_, _)
MimeTypesOfTable(acc, tbl) ==
    IF tbl = <<>> THEN acc
    ELSE Then([a \in {MimeTypesOfRow(acc, Class_supportedMimeTypes(Head(tbl).sys))} |->
            MimeTypesOfTable(a, Tail(tbl))])

\* The stage after `stage` of the initializer of list w, "done" after the
\* last one.
NextStage(w, stage) ==
    CASE stage = "magic" -> "header"
      [] stage = "header" -> "footer"
      [] stage = "footer" -> IF w = "exts" THEN "attrs" ELSE "done"
      [] stage = "attrs" -> "done"

NoThread == [pc |-> "idle", which |-> "none", calls |-> 0, waited |-> FALSE]

\* pthread_once(once_control, init_routine): the caller may pass when the
\* initializer has returned.
OnceMayPass(state) == state = "DONE"

\* A thread calls supportedFileExtensions() or supportedMimeTypes().
CallSupported(t, w) ==
    /\ th[t].pc = "idle"
    /\ th[t].calls < MaxCalls
    /\ th' = [th EXCEPT ![t] = [@ EXCEPT !.pc = "once", !.which = w, !.waited = FALSE]]
    /\ UNCHANGED <<hostLE, createVars, detectVars, handlerVars, fieldsVars, ratingVars,
                   indexVars, imageVars,
                   catalogShared, once, initLocals, vec_exts, vec_mimeTypes, seen>>

\* pthread_once: the first caller starts the initializer, a caller that
\* finds it running waits, a caller that finds it done passes.
OnceEnter(t) ==
    /\ th[t].pc = "once"
    /\ \E w \in {th[t].which} :
         IF once[w].state = "INIT"
         THEN /\ once' = [once EXCEPT ![w] = [state |-> "RUNNING", runs |-> @.runs + 1]]
              /\ initLocals' = [initLocals EXCEPT ![w] = [stage |-> "magic",
                                      seen |-> IF w = "exts" THEN <<>> ELSE {}]]
              /\ th' = [th EXCEPT ![t] = [@ EXCEPT !.pc = "init"]]
         ELSE IF OnceMayPass(once[w].state)
         THEN /\ th' = [th EXCEPT ![t] = [@ EXCEPT !.pc = "return"]]
              /\ UNCHANGED <<once, initLocals>>
         ELSE /\ ~th[t].waited
              /\ th' = [th EXCEPT ![t] = [@ EXCEPT !.waited = TRUE]]
              /\ UNCHANGED <<once, initLocals>>
    /\ UNCHANGED <<hostLE, createVars, detectVars, handlerVars, fieldsVars, ratingVars,
                   indexVars, imageVars,
                   catalogShared, vec_exts, vec_mimeTypes, seen>>

\* One stage of init_supportedFileExtensions, run by thread t.
InitExtsStep(t) ==
    /\ th[t].pc = "init"
    /\ th[t].which = "exts"
    /\ \E stage \in {initLocals["exts"].stage} :
       \E acc \in {IF stage = "attrs"
                   THEN ExtsAttrsPass([vec |-> vec_exts, map |-> initLocals["exts"].seen])
                   ELSE ExtsOfTable([vec |-> vec_exts, map |-> initLocals["exts"].seen],
                                    StageTable(stage))} :
         /\ vec_exts' = acc.vec
         /\ initLocals' = [initLocals EXCEPT !["exts"] =
                              [stage |-> NextStage("exts", stage), seen |-> acc.map]]
         /\ IF NextStage("exts", stage) = "done"
            THEN /\ once' = [once EXCEPT !["exts"].state = "DONE"]
                 /\ th' = [th EXCEPT ![t] = [@ EXCEPT !.pc = "return"]]
            ELSE UNCHANGED <<once, th>>
    /\ UNCHANGED <<hostLE, createVars, detectVars, handlerVars, fieldsVars, ratingVars,
                   indexVars, imageVars,
                   catalogShared, vec_mimeTypes, seen>>

\* One loop of init_supportedMimeTypes, run by thread t.
InitMimeTypesStep(t) ==
    /\ th[t].pc = "init"
    /\ th[t].which = "mimeTypes"
    /\ \E stage \in {initLocals["mimeTypes"].stage} :
       \E acc \in {MimeTypesOfTable([vec |-> vec_mimeTypes,
                                     set |-> initLocals["mimeTypes"].seen],
                                    StageTable(stage))} :
         /\ vec_mimeTypes' = acc.vec
         /\ initLocals' = [initLocals EXCEPT !["mimeTypes"] =
                              [stage |-> NextStage("mimeTypes", stage), seen |-> acc.set]]
         /\ IF NextStage("mimeTypes", stage) = "done"
            THEN /\ once' = [once EXCEPT !["mimeTypes"].state = "DONE"]
                 /\ th' = [th EXCEPT ![t] = [@ EXCEPT !.pc = "return"]]
            ELSE UNCHANGED <<once, th>>
    /\ UNCHANGED <<hostLE, createVars, detectVars, handlerVars, fieldsVars, ratingVars,
                   indexVars, imageVars,
                   catalogShared, vec_exts, seen>>

\* return vec_exts; / return vec_mimeTypes;  and the caller reads the list.
ReturnList(t) ==
    /\ th[t].pc = "return"
    /\ seen' = [seen EXCEPT ![th[t].which] =
                   @ \cup {[v |-> IF th[t].which = "exts" THEN vec_exts
                                  ELSE vec_mimeTypes]}]
    /\ th' = [th EXCEPT ![t] = [@ EXCEPT !.pc = "idle", !.calls = @ + 1]]
    /\ UNCHANGED <<hostLE, createVars, detectVars, handlerVars, fieldsVars, ratingVars,
                   indexVars, imageVars,
                   catalogShared, once, initLocals, vec_exts, vec_mimeTypes>>

InitOnce ==
    /\ hostLE = TRUE
    /\ CreateIdle
    /\ DetectIdle
    /\ HandlerIdle
    /\ FieldsIdle
    /\ RatingIdle
    /\ IndexIdle
    /\ ImageIdle
    /\ catalogShared \in BOOLEAN
    /\ once = [w \in Lists |-> [state |-> "INIT", runs |-> 0]]
    /\ initLocals = [w \in Lists |-> [stage |-> "none", seen |-> <<>>]]
    /\ vec_exts = <<>>
    /\ vec_mimeTypes = <<>>
    /\ th = [t \in Threads |-> NoThread]
    /\ seen = [w \in Lists |-> {}]

NextOnce ==
    \/ \E t \in Threads, w \in Lists : CallSupported(t, w)
    \/ \E t \in Threads : OnceEnter(t)
    \/ \E t \in Threads : InitExtsStep(t)
    \/ \E t \in Threads : InitMimeTypesStep(t)
    \/ \E t \in Threads : ReturnList(t)

SpecOnce == InitOnce /\ [][NextOnce]_vars

(* Properties of the one-time initialized lists.                           *)

RECURSIVE TableClasses(_)
TableClasses(tbl) == IF tbl = <<>> THEN {} ELSE {Head(tbl).sys} \cup TableClasses(Tail(tbl))
CatalogClasses ==
    TableClasses(romDataFns_magic) \cup TableClasses(romDataFns_header) \cup
    TableClasses(romDataFns_footer)
Elements(s) == {s[i] : i \in 1..Len(s)}

\* The extensions and the MIME types of the three catalogue tables.
CatalogExts == UNION {Elements(Class_supportedFileExtensions(sys)) : sys \in CatalogClasses}
CatalogMimeTypes == UNION {Elements(Class_supportedMimeTypes(sys)) : sys \in CatalogClasses}

\* C16: however the first calls of supportedFileExtensions() and of
\* supportedMimeTypes() from several threads interleave, each initializer
\* runs once, and every call of one function returns the same list, which
\* holds each extension (MIME type) of the three catalogue tables exactly
\* once, so no call returns a list that is still being built.
C16_ListsInitializedOnce ==
    /\ \A w \in Lists :
         /\ once[w].runs <= 1
         /\ Cardinality(seen[w]) <= 1
         /\ seen[w] # {} => once[w].runs = 1
    /\ \A l \in seen["exts"] :
         /\ {e.ext : e \in Elements(l.v)} = CatalogExts
         /\ Len(l.v) = Cardinality(CatalogExts)
    /\ \A l \in seen["mimeTypes"] :
         /\ Elements(l.v) = CatalogMimeTypes
         /\ Len(l.v) = Cardinality(CatalogMimeTypes)

\* A thread that called supportedFileExtensions() while another thread was
\* building the list has got the list, and so has a thread that called
\* supportedMimeTypes(); several classes list the same extension.
C16_Witness ==
    /\ catalogShared
    /\ \E t \in Threads :
         th[t].pc = "idle" /\ th[t].waited /\ th[t].which = "exts" /\ th[t].calls = 1
    /\ seen["exts"] # {}
    /\ seen["mimeTypes"] # {}

\* A call found the list half built: the initializer is past its first
\* table while another thread waits in pthread_once.
ListHalfBuiltWhileCalled ==
    \E t \in Threads, u \in Threads :
        /\ th[t].pc = "init" /\ th[t].which = "exts"
        /\ initLocals["exts"].stage = "footer"
        /\ th[u].pc = "once" /\ th[u].which = "exts" /\ th[u].waited
        /\ vec_exts # <<>>

-----------------------------------------------------------------------------
(* Properties of the stages of RomDataFactory::create.                     *)

PairExt(ext) ==
    IF ext = NoExt THEN FALSE
    ELSE strcasecmp_eq(ext, ".vms") \/ strcasecmp_eq(ext, ".vmi")

\* What the staged loops read and write.
StageState == <<fnsIdx, info, readFooter, crReads, romData, liveHandlers>>

\* The step after the first header read, and the step that attempts the
\* pair.
PairFirstStep ==
    /\ (pc = "start" /\ pc' # "done") =>
           pc' = IF PairExt(crFile.ext) THEN "pair" ELSE "magic"
    /\ pc = "pair" =>
           /\ lastTried = -1
           /\ fnsIdx = 1 /\ romData = NoHandler /\ liveHandlers = {}
           /\ IF lastTried' = 0 /\ ~anyDiscarded'
              THEN /\ pc' = "done"
                   /\ romData' = [rank |-> 0, sys |-> "DreamcastSave", valid |-> TRUE]
                   /\ liveHandlers' = {romData'}
              ELSE /\ pc' = "magic"
                   /\ StageState' = StageState

\* C17: for a file named .vms or .vmi, create attempts the pair before any
\* staged descriptor: when the sibling opens and the DreamcastSave of the
\* pair is Valid it is the result and nothing else is tried; otherwise the
\* sibling and the pair handler are released and the magic stage starts
\* from the state it starts from for a file without a sibling (first
\* descriptor, the header as first read, no further read, no object held).
C17_PairAttemptedFirst == [][PairFirstStep]_vars

\* The sibling opened, the pair handler was not Valid and was released, and
\* the magic stage is about to start.
C17_Witness ==
    /\ PairExt(crFile.ext)
    /\ pc = "magic" /\ fnsIdx = 1
    /\ lastTried = 0 /\ anyDiscarded
    /\ liveHandlers = {}

\* The pair handler was Valid and was returned.
PairReturned ==
    /\ CreateDone
    /\ romData # NoHandler
    /\ romData.rank = 0
    /\ lastTried = 0

\* After a pair that did not validate, a staged descriptor gave the result.
StagedAfterPair ==
    /\ CreateDone
    /\ PairExt(crFile.ext)
    /\ anyDiscarded
    /\ romData # NoHandler
    /\ romData.rank > Len(romDataFns_magic)

\* The extensions of the allow-list of the header stage, and the extension
\* of the footer descriptor, compared as strcasecmp compares.
InAllowList(ext) ==
    IF ext = NoExt THEN FALSE
    ELSE \E a \in {".bin", ".sms", ".gg", ".tgc"} : ToLower(ext) = a
FooterExtMatches(ext) == IF ext = NoExt THEN FALSE ELSE ToLower(ext) = ".vb"

\* The rows of romDataFns_header with a non-zero address.
NonZeroRows == {i \in 1..Len(romDataFns_header) : romDataFns_header[i].address # 0}

\* A step of the header stage.
HeaderStageStep ==
    pc = "header" =>
        /\ lastTried' # lastTried =>
              /\ lastTried' = RankHeader(fnsIdx)
              /\ fnsIdx \in NonZeroRows =>
                    /\ InAllowList(crFile.ext)
                    /\ \A j \in 1..Len(romDataFns_header) :
                          romDataFns_header[j].address = 0 => j < fnsIdx
                    /\ info'.header = [addr |-> romDataFns_header[fnsIdx].address,
                                       size |-> romDataFns_header[fnsIdx].size]
        /\ crReads' # crReads =>
              /\ InAllowList(crFile.ext)
              /\ fnsIdx \in NonZeroRows
              /\ info'.header.addr = romDataFns_header[fnsIdx].address
              /\ info'.header.size <= romDataFns_header[fnsIdx].size
        /\ ~InAllowList(crFile.ext) => info' = info

\* C19: in the header stage a descriptor with a non-zero offset is tried
\* only after all descriptors of offset 0, and only on a window re-read at
\* its offset and size; the window is re-read only for a file whose
\* extension is in the allow-list (.bin, .sms, .gg, .tgc): for any other
\* file, or one without extension, the header stage reads nothing and
\* evaluates no descriptor of non-zero offset.
C19_HeaderRereadAllowListed == [][HeaderStageStep]_vars

\* A .bin file for which Sega8Bit was evaluated on the window re-read at
\* 0x7FE0.
C19_Witness ==
    /\ crFile.ext = ".bin"
    /\ lastTried = RankHeader(Len(romDataFns_header) - 1)
    /\ crReads = 2
    /\ info.header = [addr |-> 32736, size |-> 32]

\* A .txt file large enough for both non-zero offsets went through the
\* header stage on the first read alone.
HeaderStageBrokeOff ==
    /\ crFile.ext = ".txt"
    /\ crFile.size = 262176
    /\ CreateDone
    /\ lastTried = RankHeader(Len(romDataFns_header) - 2)
    /\ crReads = 1

FooterWindow ==
    [addr |-> IF info.szFile > FOOTER_SIZE THEN info.szFile - FOOTER_SIZE ELSE 0,
     size |-> Min(info.szFile, FOOTER_SIZE)]

\* A step of the footer stage.
FooterStageStep ==
    pc = "footer" =>
        /\ crReads' # crReads =>
              /\ ~readFooter
              /\ readFooter' \/ pc' = "done"
              /\ fnsIdx <= Len(romDataFns_footer)
              /\ FooterExtMatches(crFile.ext)
              /\ crReads' = crReads + 1
        /\ readFooter => (readFooter' /\ crReads' = crReads)
        /\ lastTried' # lastTried =>
              /\ lastTried' = RankFooter(fnsIdx)
              /\ FooterExtMatches(crFile.ext)
              /\ info'.header = FooterWindow

\* C20 as worded: the footer stage is attempted only for files under 1 GiB;
\* the trailing window is read at most once in a create call, and only when
\* a footer descriptor whose extension matches has been reached; every
\* footer predicate is evaluated on the trailing window.
C20_FooterUnderCeiling ==
    [](pc = "footer" => info.szFile < FOOTER_MAX_FILESIZE) /\ [][FooterStageStep]_vars

\* C20: the footer stage is attempted only for files of at most 1 GiB; the
\* trailing window is read at most once in a create call, and only when a
\* footer descriptor whose extension matches has been reached; every footer
\* predicate is evaluated on the trailing window.
C20_FooterUpToCeiling ==
    [](pc = "footer" => info.szFile <= FOOTER_MAX_FILESIZE) /\ [][FooterStageStep]_vars

\* The VirtualBoy predicate was evaluated on the last 1024 bytes of a .vb
\* file of exactly 1 GiB, after one read of the footer.
C20_Witness ==
    /\ crFile.ext = ".vb"
    /\ crFile.size = FOOTER_MAX_FILESIZE
    /\ lastTried = RankFooter(1)
    /\ readFooter
    /\ crReads = 2
    /\ info.header = [addr |-> FOOTER_MAX_FILESIZE - FOOTER_SIZE, size |-> FOOTER_SIZE]

\* A .vb file of no more than 1024 bytes: the predicate was evaluated on the
\* window of the first read, which is the whole file.
FooterOfSmallFile ==
    /\ crFile.ext = ".vb"
    /\ crFile.size = 1000
    /\ lastTried = RankFooter(1)
    /\ crReads = 1

-----------------------------------------------------------------------------
(* Further properties of the handlers.                                     *)

\* A call of loadFieldData after the first one, on a valid handler that
\* holds its file (on which no call of loadFieldData returns an error).
FieldsLoadedAgain ==
    /\ d.isValid
    /\ d.file # "nullptr"
    /\ lastCall.op = "loadFieldData"
    /\ lastCall.again

\* C21: on a valid handler every call of loadFieldData after the first
\* returns the cached table without computing it again: it reads nothing
\* from the file, allocates no buffer and changes no cache, also when the
\* first call left the field table empty.
C21_LaterLoadsUseCache ==
    FieldsLoadedAgain =>
        /\ lastCall.reads = 0
        /\ lastCall.allocs = {}
        /\ ~lastCall.cached
        /\ d.fields = first.fields

\* The same of the calls made when the first one produced a field.
LaterLoadsOfNonEmptyTable ==
    (FieldsLoadedAgain /\ first.fields # <<>>) =>
        /\ lastCall.reads = 0
        /\ lastCall.allocs = {}
        /\ ~lastCall.cached
        /\ lastCall.ret = 0

\* A container whose first load left the table empty was loaded again, and
\* the second load read the file.
EmptyTableLoadedAgain ==
    /\ FieldsLoadedAgain
    /\ klass = "Xbox360_XDBF"
    /\ first.fields = <<>>
    /\ lastCall.reads > 0

NonEmptyTableLoadedAgain ==
    /\ FieldsLoadedAgain
    /\ klass = "Xbox360_XDBF"
    /\ Len(first.fields) >= 2
    /\ lastCall.reads = 0

\* The entry of the XSTC resource in the entry table (0: none) and the
\* content of the file at its offset, as getLanguageID finds them.
XstcEntry == findResource(d.entryTable, XDBF_SPA_NAMESPACE_METADATA, XDBF_XSTC_MAGIC)

XstcInFile == hFile.res[FromBE(d.entryTable[XstcEntry].offset)]

XstcBadKind ==
    IF XstcEntry = 0 THEN "absent"
    ELSE IF FromBE(d.entryTable[XstcEntry].length) # sizeof_XDBF_XSTC THEN "size"
    ELSE IF XstcInFile.avail < sizeof_XDBF_XSTC THEN "read"
    ELSE IF \/ XstcInFile.magic # BEBytes(XDBF_XSTC_MAGIC, 4)
            \/ XstcInFile.version # BEBytes(XDBF_RES_VERSION, 4) THEN "magic"
    ELSE "good"

XstcAbsentOrBad == XstcBadKind # "good"

TableLoads(langID) == loadStringTable(Begin(d), langID).ret # nullptr

\* getLanguageID has run on a valid container whose system language has no
\* loadable string table and whose XSTC resource is absent or bad, while
\* the English table loads.
EnglishIsLastResort ==
    /\ klass = "Xbox360_XDBF"
    /\ d.isValid
    /\ lastCall.op = "getString"
    /\ lastCall.key = "Title"
    /\ ~TableLoads(sysLang)
    /\ XstcAbsentOrBad
    /\ TableLoads(XDBF_LANGUAGE_ENGLISH)

\* C22: when the system language has no loadable string table and the XSTC
\* resource is absent, has the wrong size, cannot be read or fails its
\* magic/version check, getLanguageID selects English whenever the English
\* string table loads.
C22_EnglishAfterBadXstc ==
    EnglishIsLastResort => d.m_langID = XDBF_LANGUAGE_ENGLISH

\* What the code does in that case: no language is selected and the title
\* comes back empty.
BadXstcSelectsNothing ==
    EnglishIsLastResort =>
        /\ d.m_langID = XDBF_LANGUAGE_UNKNOWN
        /\ lastCall.ret = ""

\* With a good XSTC resource whose language has no table either, English is
\* selected.
EnglishAfterGoodXstc ==
    /\ klass = "Xbox360_XDBF"
    /\ d.isValid
    /\ lastCall.op = "getString"
    /\ sysLang = XDBF_LANGUAGE_GERMAN
    /\ ~XstcAbsentOrBad
    /\ XstcDefault = XDBF_LANGUAGE_JAPANESE
    /\ ~TableLoads(XDBF_LANGUAGE_JAPANESE)
    /\ d.m_langID = XDBF_LANGUAGE_ENGLISH

BadXstcAbsent == EnglishIsLastResort /\ XstcBadKind = "absent"
BadXstcSize == EnglishIsLastResort /\ XstcBadKind = "size"
BadXstcRead == EnglishIsLastResort /\ XstcBadKind = "read"
BadXstcMagic == EnglishIsLastResort /\ XstcBadKind = "magic"

-----------------------------------------------------------------------------
(* The magic stage of RomDataFactory::create.                              *)

\* The descriptor of the magic table whose magic was compared last, while
\* the call is still in the magic stage or has returned from it.
MagicCompared == lastTried \in 1..Len(romDataFns_magic)
ComparedFns == romDataFns_magic[lastTried]
WordWasRead(fns) == fns.address + 4 <= info.header.size

\* C23: in the magic stage the 32-bit word compared against a descriptor's
\* magic lies within the header bytes that were read (address + 4 <= number
\* of bytes read), so that on a shorter file the descriptor's magic is not
\* compared against anything and cannot match.
C23_MagicWordWithinRead ==
    MagicCompared => WordWasRead(ComparedFns)

\* A file of 108 bytes: the word of the descriptor at 0x104 is compared.
ShortFileWordCompared ==
    /\ crFile.size = 108
    /\ MagicCompared
    /\ ComparedFns.address = 260

\* For files that fill the header buffer, every compared word was read.
FullHeaderWordsRead ==
    (MagicCompared /\ info.header.size = HEADER_BUF_SIZE) => WordWasRead(ComparedFns)

-----------------------------------------------------------------------------
(* The string search of Xbox360_XDBF_Private::loadString.                  *)

StringLoaded == klass = "Xbox360_XDBF" /\ lastCall.op = "loadString"
LoadedFrom == d.strTbls[lastCall.key[1]]

\* The records of a table that lie in its buffer whole, header and text.
RECURSIVE WholeRecs(_, _, _)
WholeRecs(vec, i, p) ==
    IF i > Len(vec.recs) THEN {}
    ELSE LET q == p + sizeof_XDBF_XSTR_Entry_Header + FromBE(vec.recs[i].length)
         IN IF q <= vec.size THEN {vec.recs[i]} \cup WholeRecs(vec, i + 1, q) ELSE {}

IdWhole(vec, string_id) ==
    \E rec \in WholeRecs(vec, 1, sizeof_XDBF_XSTR_Header) :
        FromBE(rec.string_id) = string_id

\* loadString returns "" when the table did not load and when the id has no
\* record lying whole in the buffer, and the text of the record otherwise.
LoadStringResult ==
    StringLoaded =>
        IF LoadedFrom = nullptr THEN lastCall.ret.str = ""
        ELSE (lastCall.ret.str = "") = ~IdWhole(LoadedFrom, lastCall.key[2])

\* C24: for every cached string-table buffer and every id, loadString reads
\* no byte outside the buffer, neither of a record header nor of a text, and
\* returns "" when the id is absent, when its text would extend past the end
\* of the buffer and when the table failed to load.
C24_SearchStaysInBuffer ==
    StringLoaded =>
        /\ LoadStringResult
        /\ LoadedFrom # nullptr => lastCall.ret.extent <= LoadedFrom.size

\* A search that read a record header lying partly behind the buffer.
HeaderReadBehindBuffer ==
    /\ StringLoaded
    /\ LoadedFrom # nullptr
    /\ lastCall.ret.extent = LoadedFrom.size + 2
    /\ lastCall.ret.str = ""

\* A text that would extend past the end of the buffer is not read.
CutTextNotRead ==
    /\ StringLoaded
    /\ LoadedFrom # nullptr
    /\ lastCall.key[2] = 1
    /\ ~IdWhole(LoadedFrom, 1)
    /\ lastCall.ret.extent = LoadedFrom.size - 6
    /\ lastCall.ret.str = ""

\* Text is never read behind the buffer: the extent exceeds the buffer by
\* less than one record header.
SearchOverreadBelowHeader ==
    (StringLoaded /\ LoadedFrom # nullptr) =>
        lastCall.ret.extent < LoadedFrom.size + sizeof_XDBF_XSTR_Entry_Header

-----------------------------------------------------------------------------
(* The entry loops of addFields_achievements and addFields_avatarAwards.   *)

\* The whole entries that follow the header in the bytes loaded for a list
\* resource, and the count its header declares.
ListLength(magic) ==
    FromBE(d.entryTable[findResource(d.entryTable, XDBF_SPA_NAMESPACE_METADATA,
                                     magic)].length)
ListDeclared(magic) ==
    LET buf == hFile.res[FromBE(d.entryTable[findResource(d.entryTable,
                             XDBF_SPA_NAMESPACE_METADATA, magic)].offset)]
    IN FromBE(buf.xach_count)
EntriesLoaded(magic) ==
    IF magic = XDBF_XACH_MAGIC
    THEN (ListLength(magic) - sizeof_XDBF_XACH_Header) \div sizeof_XDBF_XACH_Entry
    ELSE (ListLength(magic) - sizeof_XDBF_XGAA_Header) \div sizeof_XDBF_XGAA_Entry

ListMagic(name) == IF name = "Achievements" THEN XDBF_XACH_MAGIC ELSE XDBF_XGAA_MAGIC
ListMaxCount(name) == IF name = "Achievements" THEN XACH_MAX_COUNT ELSE XGAA_MAX_COUNT

\* The list fields of a container handler; one icon slot per entry processed.
ListFields ==
    IF klass # "Xbox360_XDBF" THEN {}
    ELSE {i \in 1..Len(d.fields) : d.fields[i].type = "listData"}
EntriesProcessed(i) == Len(d.fields[i].icons)

\* C25: the number of achievement or avatar award entries processed is at
\* most the documented maximum (512, 16) and at most the number of whole
\* entries in the bytes loaded, whatever count the header declares: no
\* entry is read behind the loaded buffer.
C25_EntriesWithinBuffer ==
    \A i \in ListFields :
        /\ EntriesProcessed(i) <= ListMaxCount(d.fields[i].name)
        /\ EntriesProcessed(i) <= EntriesLoaded(ListMagic(d.fields[i].name))

\* A declared count above the maximum is cut to the maximum only.
EntriesReadBehindBuffer ==
    \E i \in ListFields :
        /\ d.fields[i].name = "Avatar Awards"
        /\ ListDeclared(XDBF_XGAA_MAGIC) = XGAA_MAX_COUNT + 1
        /\ EntriesLoaded(XDBF_XGAA_MAGIC) = 1
        /\ EntriesProcessed(i) = XGAA_MAX_COUNT

\* A declared count up to the maximum is cut to the entries loaded.
EntriesCutToBuffer ==
    \E i \in ListFields :
        /\ d.fields[i].name = "Avatar Awards"
        /\ ListDeclared(XDBF_XGAA_MAGIC) = 2
        /\ EntriesProcessed(i) = 1

\* The maximum is kept for every declared count, and so is the buffer for
\* every declared count up to the maximum.
EntriesWithinMaximum ==
    \A i \in ListFields :
        /\ EntriesProcessed(i) <= ListMaxCount(d.fields[i].name)
        /\ ListDeclared(ListMagic(d.fields[i].name)) <= ListMaxCount(d.fields[i].name)
              => EntriesProcessed(i) <= EntriesLoaded(ListMagic(d.fields[i].name))

-----------------------------------------------------------------------------
(* The list field addFields_achievements builds.                           *)

AchievementsAt(i) ==
    /\ klass = "Xbox360_XDBF"
    /\ d.fields[i].type = "listData"
    /\ d.fields[i].name = "Achievements"
AchievementsFields ==
    IF klass # "Xbox360_XDBF" THEN {} ELSE {i \in 1..Len(d.fields) : AchievementsAt(i)}

\* The entries of the XACH resource in the file.
XachEntries ==
    hFile.res[FromBE(d.entryTable[findResource(d.entryTable, XDBF_SPA_NAMESPACE_METADATA,
                                               XDBF_XACH_MAGIC)].offset)].entries

\* The text a language shows for a string id: its own, or the English one
\* when it has none.
OwnOrEnglish(langID, string_id) ==
    IF StringIn(langID, string_id) # "" THEN StringIn(langID, string_id)
    ELSE StringIn(XDBF_LANGUAGE_ENGLISH, string_id)
Lines(name, desc) ==
    (IF name # "" THEN <<name>> ELSE <<>>) \o (IF desc # "" THEN <<desc>> ELSE <<>>)

\* The row of an entry in the row-set of a language.
AchievementRow(langID, ent) ==
    <<[fmt |-> "%u", v |-> FromBE(ent.achievement_id)],
      Lines(OwnOrEnglish(langID, FromBE(ent.name_id)),
            OwnOrEnglish(langID, IF FromBE(ent.locked_desc_id) # NO_LOCKED_DESC
                                 THEN FromBE(ent.locked_desc_id)
                                 ELSE FromBE(ent.unlocked_desc_id))),
      [fmt |-> "%u", v |-> FromBE(ent.gamerscore)]>>

TableLangs == {l \in Langs : l >= XDBF_LANGUAGE_ENGLISH /\ d.strTblIndexes[l] >= 0}

\* C27: the achievements list field has one row-set for each language that
\* has a string table; a row-set has one row per processed entry, in entry
\* order, of three cells: id, description, gamerscore; the icon list has
\* one slot per entry; name and description are the language's own strings
\* and the English ones only where the language has none for the id.
C27_AchievementRows ==
    \A i \in AchievementsFields :
        LET f == d.fields[i]
            n == Len(f.icons)
        IN /\ n <= Len(XachEntries)
           /\ DOMAIN f.data = {getXbox360LanguageCode(l) : l \in TableLangs}
           /\ \A l \in TableLangs :
                 LET rows == f.data[getXbox360LanguageCode(l)]
                 IN /\ Len(rows) = n
                    /\ \A j \in 1..n :
                          /\ Len(rows[j]) = 3
                          /\ rows[j] = AchievementRow(l, XachEntries[j])

\* Two achievements shown in Japanese: the first named in English, for the
\* Japanese table has no string 1; the second named in Japanese and
\* described in English.
C27_Witness ==
    \E i \in AchievementsFields :
        /\ Len(d.fields[i].icons) = 2
        /\ d.fields[i].icons[2] = nullptr
        /\ DOMAIN d.fields[i].data = {"en", "ja"}
        /\ d.fields[i].data["ja"][1][2] = <<"Won\nit">>
        /\ d.fields[i].data["ja"][2][2] = <<"Heiro", "Won\nit">>
        /\ d.fields[i].data["en"][2][2] = <<"Halo", "Won\nit">>

-----------------------------------------------------------------------------
(* The title of a GameCube banner as field and as metadata.                *)

\* Both tables of a banner handler have been built.
BannerShown ==
    /\ klass = "GameCubeBNR"
    /\ {"fields", "metaData"} \subseteq first.called
    /\ d.metaData # nullptr

FieldTexts(name) ==
    {d.fields[i].data : i \in {k \in 1..Len(d.fields) : d.fields[k].name = name}}
MetaTexts(name) ==
    {d.metaData.props[i].data :
        i \in {k \in 1..Len(d.metaData.props) : d.metaData.props[k].name = name}}

\* C28: the metadata Title of a banner carries the text of its 'Game Name'
\* field, and it is not added with an empty text while the banner has a
\* short game name.
C28_TitleIsGameName ==
    BannerShown =>
        /\ MetaTexts("Title") = FieldTexts("Game Name")
        /\ "" \notin MetaTexts("Title")

\* A banner that has only the short names: the field shows the short game
\* name, the title is not that text.
ShortNameLosesTitle ==
    /\ BannerShown
    /\ FieldTexts("Game Name") = {"Game"}
    /\ "Game" \notin MetaTexts("Title")
    /\ MetaTexts("Publisher") = {"Co"}

\* With a full game name the title is the field's text, and the publisher
\* follows the company field in both cases.
FullNameIsTitle ==
    BannerShown =>
        /\ MetaTexts("Publisher") = FieldTexts("Company")
        /\ (\E t \in FieldTexts("Game Name") : t # "Game")
               => MetaTexts("Title") = FieldTexts("Game Name")
FullNameShown ==
    /\ BannerShown
    /\ FieldTexts("Game Name") = {"Game Full"}
    /\ MetaTexts("Title") = {"Game Full"}

(* addFields_romFields with TabOffset_AddTabs.                             *)

TabsAdded ==
    /\ rfCall.op = "addFields_romFields"
    /\ ~rfCall.bad /\ ~rfCall.aborted
    /\ rfCall.tabOffset = TabOffset_AddTabs
CopiedFrom == Len(rfCall.before.fields)
\* The copy of field i of `other` is that field, but for its tab index.
PayloadKept(i) ==
    [rfd.fields[CopiedFrom + i] EXCEPT !.tabIdx = rfCall.other.fields[i].tabIdx]
        = rfCall.other.fields[i]
TabNameKept(i) ==
    tabName(rfd, rfd.fields[CopiedFrom + i].tabIdx).ret
        = tabName(rfCall.other, rfCall.other.fields[i].tabIdx).ret

\* C30: after addFields_romFields(other, TabOffset_AddTabs) on any
\* destination, one that never had a tab name set included, every copied
\* field keeps its payload and its validity flag, and the tab name the
\* destination reports for the copied field's tab index is the tab name the
\* source reports for the field's original tab index.
C30_CopiedTabsKeepNames ==
    TabsAdded =>
        /\ Len(rfd.fields) = CopiedFrom + Len(rfCall.other.fields)
        /\ \A i \in 1..Len(rfCall.other.fields) : PayloadKept(i) /\ TabNameKept(i)

\* A destination that never had a tab name set: the field copied from tab
\* "A" is in the tab named "B", the field copied from "B" in a tab that has
\* no name.
CopiedTabMisnamed ==
    /\ TabsAdded
    /\ rfCall.before.tabNames = <<>> /\ rfCall.before.tabIdx = 0
    /\ rfCall.other.tabNames = <<"A", "B">>
    /\ tabName(rfd, rfd.fields[CopiedFrom + 1].tabIdx).ret = "B"
    /\ tabName(rfd, rfd.fields[CopiedFrom + 2].tabIdx).ret = "nullptr"

\* The fields themselves are always copied whole.
CopiedFieldsKeepPayload ==
    TabsAdded =>
        /\ Len(rfd.fields) = CopiedFrom + Len(rfCall.other.fields)
        /\ \A i \in 1..Len(rfCall.other.fields) : PayloadKept(i)

\* The names are kept when the destination's current tab is its last one,
\* which is what `tabOffset = d->tabIdx + 1` takes for granted.
NamesKeptAfterLastTab ==
    (TabsAdded /\ Len(rfCall.before.tabNames) = rfCall.before.tabIdx + 1)
        => \A i \in 1..Len(rfCall.other.fields) : TabNameKept(i)

\* A field of tab "A" copied behind the one tab of the destination.
CopiedTabNamed ==
    /\ TabsAdded
    /\ Len(rfCall.before.tabNames) = 1 /\ rfCall.before.tabIdx = 0
    /\ rfCall.other.tabNames = <<"A">>
    /\ rfd.fields[CopiedFrom + 1].tabIdx = 1
    /\ tabName(rfd, 1).ret = "A"

-----------------------------------------------------------------------------
(* Xbox360_XDBF_Private::initStrTblIndexes on entry tables of any length   *)
(* the constructor accepts (up to 1,048,575 entries).  A table is given as *)
(* `pad` leading entries of the image namespace followed by the entries of *)
(* `tail`.                                                                 *)

MaxTail == 3

IndexPads == {0, 1, 32767, 32768, 65535, 65536}
IndexEntries ==
    {Entry(XDBF_SPA_NAMESPACE_STRING_TABLE, XDBF_LANGUAGE_ENGLISH, 0, 100),
     Entry(XDBF_SPA_NAMESPACE_STRING_TABLE, XDBF_LANGUAGE_JAPANESE, 100, 100),
     Entry(XDBF_SPA_NAMESPACE_STRING_TABLE, XDBF_LANGUAGE_MAX, 200, 100),
     Entry(XDBF_SPA_NAMESPACE_IMAGE, XDBF_LANGUAGE_ENGLISH, 300, 100)}
IndexTables ==
    {[pad |-> p, tail |-> t] :
        p \in IndexPads, t \in UNION {[1 .. n -> IndexEntries] : n \in 0 .. MaxTail}}

\* idx after the loop has passed k entries that are no string tables: each
\* takes the `continue` and the idx++ of the for statement.
IdxAfterOthers(k) == Int16(k)

\* The call the constructor makes once the entry table is read.
InitStrTblIndexes ==
    /\ itCall = NoCall
    /\ itCall' = [op |-> "initStrTblIndexes",
                  strTblIndexes |->
                      IF itTable.pad = 0 THEN initStrTblIndexes(itTable.tail)
                      ELSE InitStrTblLoop(itTable.tail, 1, IdxAfterOthers(itTable.pad),
                                          0, [l \in Langs |-> -1])]
    /\ UNCHANGED <<hostLE, createVars, detectVars, handlerVars, fieldsVars, ratingVars,
                   onceVars, imageVars, itTable>>

\* loadStringTable and the field builders then ask for a language.
HasStrTbl ==
    /\ itCall # NoCall
    /\ itCall.op = "initStrTblIndexes"
    /\ \E langID \in {XDBF_LANGUAGE_ENGLISH, XDBF_LANGUAGE_JAPANESE} :
         itCall' = [itCall EXCEPT !.op = "strTblIndexes", !.langID = langID,
                                  !.has = itCall.strTblIndexes[langID] >= 0]
    /\ UNCHANGED <<hostLE, createVars, detectVars, handlerVars, fieldsVars, ratingVars,
                   onceVars, imageVars, itTable>>

InitIndexes ==
    /\ hostLE \in BOOLEAN
    /\ CreateIdle
    /\ DetectIdle
    /\ HandlerIdle
    /\ FieldsIdle
    /\ RatingIdle
    /\ OnceIdle
    /\ ImageIdle
    /\ itTable \in IndexTables
    /\ itCall = NoCall

NextIndexes ==
    \/ InitStrTblIndexes
    \/ HasStrTbl

SpecIndexes == InitIndexes /\ [][NextIndexes]_vars

(* Properties of the string table indexes.                                 *)

\* The positions (0-based) of the string table entries of a language.
StrTblPositions(langID) ==
    {itTable.pad + j - 1 : j \in {k \in 1..Len(itTable.tail) :
        /\ itTable.tail[k].namespace_id = BEBytes(XDBF_SPA_NAMESPACE_STRING_TABLE, 2)
        /\ itTable.tail[k].resource_id = BEBytes(langID, 8)}}
FirstPosition(S) == CHOOSE p \in S : \A q \in S : p <= q
TableLength == itTable.pad + Len(itTable.tail)

\* C26: after initStrTblIndexes the index recorded for a language is the
\* position of the first string table entry with that resource id, later
\* entries of the language never replacing it, and is -1 exactly when the
\* table has no such entry.
C26_IndexIsFirstPosition ==
    itCall # NoCall =>
        \A langID \in Langs :
            itCall.strTblIndexes[langID] =
                IF StrTblPositions(langID) = {} THEN -1
                ELSE FirstPosition(StrTblPositions(langID))

\* The same for the tables whose positions a 16-bit signed index can hold.
IndexOfShortTables ==
    (itCall # NoCall /\ TableLength <= 32768) =>
        \A langID \in Langs :
            itCall.strTblIndexes[langID] =
                IF StrTblPositions(langID) = {} THEN -1
                ELSE FirstPosition(StrTblPositions(langID))

\* A string table at position 32768 is recorded with a negative index: the
\* language counts as having no table.
IndexWrappedNegative ==
    /\ itCall # NoCall
    /\ 32768 \in StrTblPositions(XDBF_LANGUAGE_ENGLISH)
    /\ itCall.strTblIndexes[XDBF_LANGUAGE_ENGLISH] < 0

\* A string table at position 65536 is recorded as entry 0, and a second
\* table of a language replaces a first one recorded with a negative index.
IndexWrappedToOther ==
    /\ itCall # NoCall
    /\ StrTblPositions(XDBF_LANGUAGE_ENGLISH) = {65536}
    /\ itCall.strTblIndexes[XDBF_LANGUAGE_ENGLISH] = 0
DuplicateReplacesWrapped ==
    /\ itCall # NoCall
    /\ StrTblPositions(XDBF_LANGUAGE_JAPANESE) = {65535, 65536}
    /\ itCall.strTblIndexes[XDBF_LANGUAGE_JAPANESE] = 0

\* In a short table a second table of a language leaves the first recorded.
DuplicateKeepsFirst ==
    /\ itCall # NoCall
    /\ StrTblPositions(XDBF_LANGUAGE_JAPANESE) = {1, 3}
    /\ itCall.strTblIndexes[XDBF_LANGUAGE_JAPANESE] = 1

-----------------------------------------------------------------------------
(* PowerVR3Private::loadImage: the size of the texture data and the checks *)
(* on it, in the 32-bit unsigned arithmetic of the code.                   *)

PVR3_MAX_DIMENSION == 32768
PVR3_MAX_FILESIZE == 134217728          \* 128*1024*1024

\* Sizes and addresses are written in two digits of base 65536, [hi, lo]
\* for hi * 65536 + lo; a uint32_t keeps hi below 65536.
Wide(n) == [hi |-> n \div 65536, lo |-> n % 65536]
WAdd(a, b) == [hi |-> a.hi + b.hi + (a.lo + b.lo) \div 65536, lo |-> (a.lo + b.lo) % 65536]
WMul(a, k) == [hi |-> a.hi * k + (a.lo * k) \div 65536, lo |-> (a.lo * k) % 65536]
WLess(a, b) == a.hi < b.hi \/ (a.hi = b.hi /\ a.lo < b.lo)
WLeq(a, b) == a = b \/ WLess(a, b)
WSub(a, b) == IF a.lo >= b.lo THEN [hi |-> a.hi - b.hi, lo |-> a.lo - b.lo]
              ELSE [hi |-> a.hi - b.hi - 1, lo |-> a.lo + 65536 - b.lo]

\* uint32_t arithmetic.
U32(a) == [hi |-> a.hi % 65536, lo |-> a.lo]

\* fmtLkup_tbl: pixel_format (as the file names it), channel_depth, bits.
fmtLkup_tbl == <<
    [pixel_format |-> "a",    channel_depth |-> 8,         pxfmt |-> "PXF_A8",       bits |-> 8],
    [pixel_format |-> "rg",   channel_depth |-> 2056,      pxfmt |-> "PXF_GR88",     bits |-> 16],
    [pixel_format |-> "rgb",  channel_depth |-> 526344,    pxfmt |-> "PXF_BGR888",   bits |-> 24],
    [pixel_format |-> "rgba", channel_depth |-> 134744072, pxfmt |-> "PXF_ABGR8888", bits |-> 32],
    [pixel_format |-> "abgr", channel_depth |-> 134744072, pxfmt |-> "PXF_RGBA8888", bits |-> 32],
    [pixel_format |-> "rg",   channel_depth |-> 4112,      pxfmt |-> "PXF_G16R16",   bits |-> 32],
    [pixel_format |-> "rgb",  channel_depth |-> 329221,    pxfmt |-> "PXF_BGR565",   bits |-> 16],
    [pixel_format |-> "rgba", channel_depth |-> 67372036,  pxfmt |-> "PXF_ABGR4444", bits |-> 16],
    [pixel_format |-> "rgba", channel_depth |-> 17106181,  pxfmt |-> "PXF_ABGR1555", bits |-> 16],
    [pixel_format |-> "bgr",  channel_depth |-> 526344,    pxfmt |-> "PXF_RGB888",   bits |-> 24],
    [pixel_format |-> "bgra", channel_depth |-> 134744072, pxfmt |-> "PXF_ARGB8888", bits |-> 32] >>

\* The first row of fmtLkup_tbl for a pixel format and channel depth, 0 for
\* none.
FmtLookup(pixel_format, channel_depth) ==
    LET hits == {i \in 1..Len(fmtLkup_tbl) :
                    /\ fmtLkup_tbl[i].pixel_format = pixel_format
                    /\ fmtLkup_tbl[i].channel_depth = channel_depth}
    IN IF hits = {} THEN 0 ELSE CHOOSE i \in hits : \A j \in hits : i <= j

\* ((bits + 7) & ~7) / 8
FmtBytes(bits) == ((bits + 7) - ((bits + 7) % 8)) \div 8

\* pvr3Header.width * height * bytes, as the unsigned int product it is.
ExpectedSize(width, height, bytes) == U32(WMul(U32(Wide(width * height)), bytes))

\* (texDataStartAddr + expected_size) > file_sz
FileTooSmall(texDataStartAddr, expected_size, file_sz) ==
    WLess(file_sz, U32(WAdd(texDataStartAddr, expected_size)))

NoImage(why) ==
    [op |-> "loadImage", ret |-> "nullptr", why |-> why, expected_size |-> Wide(0),
     buf |-> Wide(0), bytes |-> 0, texDataStartAddr |-> Wide(0)]

\* loadImage(mip) on a valid object that has no image yet.  h is the header
\* with the file size; texDataStartAddr is what the constructor computed.
Pvr3LoadImage(h, mip, seekOK, readOK, decoded) ==
    LET texDataStartAddr == U32(WAdd(Wide(sizeof_PowerVR3_Header), h.metadata_size))
        height == IF h.height > 0 THEN h.height ELSE 1
        fmt == FmtLookup(h.pixel_format, h.channel_depth)
    IN
    IF h.num_surfaces # 1 \/ h.num_faces # 1 THEN NoImage("surfaces")
    ELSE IF h.width = 0 \/ h.width > PVR3_MAX_DIMENSION \/ h.height > PVR3_MAX_DIMENSION
    THEN NoImage("dimensions")
    ELSE IF WLess(texDataStartAddr, Wide(sizeof_PowerVR3_Header)) THEN NoImage("start")
    ELSE IF WLess(Wide(PVR3_MAX_FILESIZE), h.file_sz) THEN NoImage("file size")
    ELSE IF ~seekOK THEN NoImage("seek")
    ELSE IF mip # 0 THEN NoImage("mip")
    ELSE IF h.channel_depth = 0 THEN NoImage("compressed")
    ELSE IF fmt = 0 THEN NoImage("format")
    ELSE LET bytes == FmtBytes(fmtLkup_tbl[fmt].bits)
             expected_size == ExpectedSize(h.width, height, bytes)
             left == IF WLeq(h.file_sz, texDataStartAddr) THEN Wide(0)
                     ELSE WSub(h.file_sz, texDataStartAddr)
             avail == IF WLess(expected_size, left) THEN expected_size ELSE left
             size == IF readOK THEN avail ELSE Wide(0)
             sized == [NoImage("too small") EXCEPT !.expected_size = expected_size,
                         !.bytes = bytes, !.texDataStartAddr = texDataStartAddr]
         IN
    IF FileTooSmall(texDataStartAddr, expected_size, h.file_sz) THEN sized
    ELSE IF size # expected_size
    THEN [sized EXCEPT !.why = "read", !.buf = expected_size]
    ELSE [sized EXCEPT !.why = IF decoded THEN "none" ELSE "decode",
                      !.ret = IF decoded THEN "image" ELSE "nullptr",
                      !.buf = expected_size]

Pvr3Widths == {0, 1, 16, PVR3_MAX_DIMENSION, PVR3_MAX_DIMENSION + 1}
Pvr3Heights == {0, 8, PVR3_MAX_DIMENSION, PVR3_MAX_DIMENSION + 1}
Pvr3Formats ==
    {<<fmtLkup_tbl[i].pixel_format, fmtLkup_tbl[i].channel_depth>> :
        i \in 1..Len(fmtLkup_tbl)} \cup {<<"rgba", 0>>, <<"l", 8>>}
\* metadata_size: none, one that puts the data 256 bytes below 4 GiB, and
\* one that wraps the start address into the header.
Pvr3MetadataWraps == {Wide(0), [hi |-> 65535, lo |-> 65228], [hi |-> 65535, lo |-> 65520]}
Pvr3FileSizes ==
    {Wide(sizeof_PowerVR3_Header + 100), Wide(sizeof_PowerVR3_Header + 512),
     Wide(PVR3_MAX_FILESIZE), Wide(PVR3_MAX_FILESIZE + 1)}
Pvr3Headers ==
    {[width |-> w, height |-> ht, pixel_format |-> f[1], channel_depth |-> f[2],
      num_surfaces |-> s, num_faces |-> 1, metadata_size |-> ms, file_sz |-> fs] :
        w \in Pvr3Widths, ht \in Pvr3Heights, f \in Pvr3Formats, s \in {1, 2},
        ms \in Pvr3MetadataWraps, fs \in Pvr3FileSizes}

LoadPvr3Image ==
    /\ pvCall = NoCall
    /\ \E mip \in {0, 1}, seekOK \in BOOLEAN, readOK \in BOOLEAN, decoded \in BOOLEAN :
         pvCall' = Pvr3LoadImage(pvImage, mip, seekOK, readOK, decoded)
    /\ UNCHANGED <<hostLE, createVars, detectVars, handlerVars, fieldsVars, ratingVars,
                   onceVars, indexVars, pvImage>>

InitImage ==
    /\ hostLE = TRUE
    /\ CreateIdle
    /\ DetectIdle
    /\ HandlerIdle
    /\ FieldsIdle
    /\ RatingIdle
    /\ OnceIdle
    /\ IndexIdle
    /\ pvImage \in Pvr3Headers
    /\ pvCall = NoCall

NextImage == LoadPvr3Image

SpecImage == InitImage /\ [][NextImage]_vars

(* Properties of the texture size.                                         *)

\* loadImage passed its file size check and allocated the buffer.
SizeCheckPassed == pvCall # NoCall /\ pvCall.why \in {"read", "decode", "none"}
Pvr3Height == IF pvImage.height > 0 THEN pvImage.height ELSE 1

\* C29: for a header that passes the dimension check and a supported pixel
\* format the expected size is the product width x height x bytes per
\* pixel, without 32-bit wrap-around, and start address + expected size
\* does not wrap either: once the file size check has passed, the texture
\* data lie inside the file, of at most 128 MiB, and the buffer is not
\* larger than the file.
C29_TextureInsideFile ==
    SizeCheckPassed =>
        /\ pvCall.expected_size = WMul(Wide(pvImage.width * Pvr3Height), pvCall.bytes)
        /\ WLeq(WAdd(pvCall.texDataStartAddr, pvCall.expected_size), pvImage.file_sz)
        /\ WLeq(pvCall.buf, pvImage.file_sz)
        /\ WLeq(pvImage.file_sz, Wide(PVR3_MAX_FILESIZE))

\* 32768 x 32768 pixels of 4 bytes: the product is 2^32, the expected size 0.
ProductWrapped ==
    /\ SizeCheckPassed
    /\ pvImage.width = PVR3_MAX_DIMENSION /\ pvImage.height = PVR3_MAX_DIMENSION
    /\ pvCall.bytes = 4
    /\ pvCall.expected_size = Wide(0)
    /\ pvCall.ret = "image"

\* Texture data that start 256 bytes below 4 GiB: the sum wraps and passes
\* the check; the read then fails.
SumWrapped ==
    /\ SizeCheckPassed
    /\ WAdd(pvCall.texDataStartAddr, pvCall.expected_size).hi >= 65536
    /\ pvCall.why = "read"

\* The sum wraps to 0: the buffer of 256 bytes is larger than the file of
\* 152 bytes.
BufferExceedsFile ==
    /\ SizeCheckPassed
    /\ WLess(pvImage.file_sz, pvCall.buf)

\* What the checks do guarantee: the file is at most 128 MiB, and an image
\* is returned only for data read from inside the file.
ImageDataWithinFile ==
    SizeCheckPassed =>
        /\ WLeq(pvImage.file_sz, Wide(PVR3_MAX_FILESIZE))
        /\ pvCall.ret = "image" =>
               /\ WLeq(WAdd(pvCall.texDataStartAddr, pvCall.expected_size), pvImage.file_sz)
               /\ WLeq(pvCall.buf, pvImage.file_sz)

\* Without wrap-around the claim holds.
ExactSizeInsideFile ==
    /\ SizeCheckPassed
    /\ pvImage.width = 16 /\ pvImage.height = 8 /\ pvCall.bytes = 4
    /\ pvCall.expected_size = Wide(512)
    /\ WAdd(pvCall.texDataStartAddr, Wide(512)) = pvImage.file_sz
    /\ pvCall.ret = "image"

=============================================================================
